---- MODULE Spec2Model ----
(***************************************************************************)
(* Frame Analyzer (src/core/analyzer.ts): the frame-to-matrix transform.   *)
(*                                                                         *)
(* Numbers.  Every numeric field of a FrameAnalyzerConfig is a JavaScript  *)
(* number.  The model draws them from the half-integers and stores a field *)
(* of value v as the integer 2*v ("halves"): offsetX = 3 stands for 1.5.   *)
(* Sums and comparisons of such values are exact in IEEE-754 doubles, so   *)
(* validateConfig is modelled with integer arithmetic on halves.  The      *)
(* sampling and brightness arithmetic is not exact in doubles: it is       *)
(* modelled by the binary64 operations below (round to nearest, ties to    *)
(* even) on values  m * 2^e  whose significand m is a multi-digit natural. *)
(***************************************************************************)
EXTENDS Integers, Sequences, FiniteSets, TLC

\* value, computed after args: a tuple is evaluated component by component,
\* so an operator that starts with Strict(<<its arguments>>, ...) computes
\* its arguments before its body, like a JavaScript call does
Strict(args, value) == <<args, value>>[2]

(***************************************************************************)
(* Wide naturals: five digits in base 2^15, least significant first (75    *)
(* bits).  The operations are written without recursion.                   *)
(***************************************************************************)
Pow2(n) ==
  <<1, 2, 4, 8, 16, 32, 64, 128, 256, 512, 1024, 2048, 4096, 8192, 16384,
    32768>>[n + 1]

DigitBits == 15

Base == Pow2(DigitBits)

WFromNat(n) ==
  <<n % Base, (n \div Base) % Base, n \div (Base * Base), 0, 0>>

\* for values below 2^31
WToNat(w) == w[1] + Base * w[2] + Base * Base * w[3]

\* w * k for 0 <= k < 2^15
WMulSmall(w, k) ==
  LET t1 == w[1] * k
      t2 == w[2] * k + t1 \div Base
      t3 == w[3] * k + t2 \div Base
      t4 == w[4] * k + t3 \div Base
      t5 == w[5] * k + t4 \div Base
  IN  <<t1 % Base, t2 % Base, t3 % Base, t4 % Base, t5 % Base>>

WAdd(a, b) ==
  LET t1 == a[1] + b[1]
      t2 == a[2] + b[2] + t1 \div Base
      t3 == a[3] + b[3] + t2 \div Base
      t4 == a[4] + b[4] + t3 \div Base
      t5 == a[5] + b[5] + t4 \div Base
  IN  <<t1 % Base, t2 % Base, t3 % Base, t4 % Base, t5 % Base>>

\* w * 2^s
WShl(w, s) ==
  Strict(<<w, s>>,
    LET v == WMulSmall(w, Pow2(s % DigitBits))
        n == s \div DigitBits
        D(i) == IF i - n >= 1 THEN v[i - n] ELSE 0
    IN  <<D(1), D(2), D(3), D(4), D(5)>>)

\* quotient and remainder of w by k, 0 < k < 2^15 (short division from the
\* most significant digit)
WDivSmall(w, k) ==
  Strict(<<w, k>>,
    LET t5 == w[5]
        t4 == (t5 % k) * Base + w[4]
        t3 == (t4 % k) * Base + w[3]
        t2 == (t3 % k) * Base + w[2]
        t1 == (t2 % k) * Base + w[1]
    IN  [q |-> <<t1 \div k, t2 \div k, t3 \div k, t4 \div k, t5 \div k>>,
         r |-> t1 % k])

\* floor(w / 2^s), and whether any of the s discarded bits was set
WShr(w, s) ==
  LET n    == s \div DigitBits
      low  == Pow2(s % DigitBits)
      high == Pow2(DigitBits - (s % DigitBits))
      H(i) == IF i + n <= 5 THEN w[i + n] ELSE 0
      D(i) == H(i) \div low + (H(i + 1) % low) * high
  IN  [q |-> <<D(1), D(2), D(3), D(4), D(5)>>,
       sticky |-> (H(1) % low # 0) \/ (\E i \in 1..5 : i <= n /\ w[i] # 0)]

\* number of bits of a digit
BitLen(n) == Cardinality({i \in 0..(DigitBits - 1) : Pow2(i) <= n})

WBitLen(w) ==
  IF w[5] # 0 THEN 4 * DigitBits + BitLen(w[5])
  ELSE IF w[4] # 0 THEN 3 * DigitBits + BitLen(w[4])
  ELSE IF w[3] # 0 THEN 2 * DigitBits + BitLen(w[3])
  ELSE IF w[2] # 0 THEN DigitBits + BitLen(w[2])
  ELSE BitLen(w[1])

WIsOdd(w) == w[1] % 2 = 1

\* a >= b
WGe(a, b) ==
  LET differ == {i \in 1..5 : a[i] # b[i]}
  IN  \/ differ = {}
      \/ LET top == CHOOSE i \in differ : \A j \in differ : j <= i
         IN  a[top] > b[top]

(***************************************************************************)
(* IEEE-754 binary64, non-negative finite values: [m, e] is m * 2^e with   *)
(* m a wide natural of at most 53 bits.                                    *)
(***************************************************************************)
MantissaBits == 53

\* r * 2^e for a rounded significand r of at most 54 bits: a carry out of
\* the 53 bits leaves a power of two, whose low bit is dropped
Renormalize(r, e) ==
  IF WBitLen(r) > MantissaBits
  THEN [m |-> WShr(r, 1).q, e |-> e + 1]
  ELSE [m |-> r, e |-> e]

\* q * 2^e with the discarded part being half of the last bit of q if half,
\* plus a non-zero amount if sticky: round to nearest, ties to even
RoundNearestEven(q, half, sticky, e) ==
  Renormalize(IF half /\ (sticky \/ WIsOdd(q)) THEN WAdd(q, WFromNat(1))
              ELSE q,
              e)

\* sh is the significand with one bit more than the 53 kept
RoundGuard(sh, sticky, e) ==
  RoundNearestEven(WShr(sh.q, 1).q, WIsOdd(sh.q), sh.sticky \/ sticky, e)

\* the double nearest to m * 2^e (+ a non-zero amount below the last bit of
\* m when sticky), ties to even
FRound(m, e, sticky) ==
  Strict(<<m, e, sticky>>,
    IF WBitLen(m) <= MantissaBits THEN [m |-> m, e |-> e]
    ELSE RoundGuard(WShr(m, WBitLen(m) - MantissaBits - 1), sticky,
                    e + WBitLen(m) - MantissaBits))

\* the double nearest to the quotient dv.q with remainder dv.r, times 2^e
FRoundQuotient(dv, e) == FRound(dv.q, e, dv.r # 0)

\* the double nearest to (n * 2^s / d) * 2^(-s)
FDivScaled(n, d, s) ==
  FRoundQuotient(WDivSmall(WShl(WFromNat(n), s), d), 0 - s)

\* the double n / d for naturals n and d > 0 below 2^15: the quotient of
\* n * 2^s by d has at least 55 bits
FDiv(n, d) ==
  Strict(<<n, d>>,
    FDivScaled(n, d, MantissaBits + 3 + BitLen(d) - BitLen(n)))

\* the double product x * k for a natural k below 2^15
FMulNat(x, k) == Strict(<<x, k>>, FRound(WMulSmall(x.m, k), x.e, FALSE))

\* the double product x * (k / 2) for a natural k below 2^15
FHalf(p) == [m |-> p.m, e |-> p.e - 1]

FMulHalves(x, k) == FHalf(FMulNat(x, k))

\* the double sum x + y: the exact sum at the smaller exponent, rounded
FAdd(x, y) ==
  IF x.e < y.e
  THEN FRound(WAdd(x.m, WShl(y.m, y.e - x.e)), x.e, FALSE)
  ELSE FRound(WAdd(WShl(x.m, x.e - y.e), y.m), y.e, FALSE)

\* x >= y
FGe(x, y) ==
  IF x.e < y.e
  THEN WGe(x.m, WShl(y.m, y.e - x.e))
  ELSE WGe(WShl(x.m, x.e - y.e), y.m)

\* Math.floor
FFloor(x) ==
  IF x.e >= 0 THEN WToNat(WShl(x.m, x.e))
  ELSE WToNat(WShr(x.m, 0 - x.e).q)

\* the double of a non-negative value given in halves
FHalves(h) == [m |-> WFromNat(h), e |-> -1]

(***************************************************************************)
(* src/core/analyzer.ts                                                    *)
(***************************************************************************)
\* the literals 0.2126, 0.7152, 0.0722: the doubles nearest to the decimals
LumaR == FDiv(2126, 10000)

LumaG == FDiv(7152, 10000)

LumaB == FDiv(722, 10000)

\* 0.2126 * r + 0.7152 * g + 0.0722 * b, evaluated left to right in doubles
calculateBrightness(r, g, b) ==
  FAdd(FAdd(FMulNat(LumaR, r), FMulNat(LumaG, g)), FMulNat(LumaB, b))

\* data[index] ?? 0 on a typed array (JavaScript indices start at 0)
ByteAt(data, index) ==
  IF index + 1 \in DOMAIN data THEN data[index + 1] ELSE 0

PixelIndex(imageData, x, y) ==
  (FFloor(y) * imageData.width + FFloor(x)) * 4

\* the R, G and B bytes at index
PixelBytes(data, index) ==
  <<ByteAt(data, index), ByteAt(data, index + 1), ByteAt(data, index + 2)>>

getPixelAt(imageData, x, y) ==
  PixelBytes(imageData.data, PixelIndex(imageData, x, y))

HasThreshold(config) == "threshold" \in DOMAIN config

ErrOffset == "Offset coordinates must be non-negative"

ErrWindowSize == "Window dimensions must be positive"

ErrMatrixSize == "Matrix dimensions must be positive"

ErrBounds == "Sampling window exceeds image boundaries"

ErrThreshold == "Threshold must be between 0 and 255"

ErrTypeError == "TypeError: Cannot set properties of undefined"

NoError == "none"

\* if (offsetX < 0 || offsetY < 0)
OffsetInvalid_AsBothNegative(config) ==
  config.offsetX < 0 /\ config.offsetY < 0

OffsetInvalid(config) == config.offsetX < 0 \/ config.offsetY < 0

\* if (windowWidth <= 0 || windowHeight <= 0)
WindowSizeInvalid_AsNegative(config) ==
  config.windowWidth < 0 \/ config.windowHeight < 0

WindowSizeInvalid(config) ==
  config.windowWidth <= 0 \/ config.windowHeight <= 0

\* if (rows <= 0 || columns <= 0)
MatrixSizeInvalid_AsRowsOnly(config) == config.rows <= 0

MatrixSizeInvalid(config) == config.rows <= 0 \/ config.columns <= 0

\* if (offsetX + windowWidth > imageData.width || ...height)
WindowOutOfBounds_AsInclusive(config, imageData) ==
  \/ config.offsetX + config.windowWidth >= 2 * imageData.width
  \/ config.offsetY + config.windowHeight >= 2 * imageData.height

WindowOutOfBounds(config, imageData) ==
  \/ config.offsetX + config.windowWidth > 2 * imageData.width
  \/ config.offsetY + config.windowHeight > 2 * imageData.height

\* if (config.threshold !== undefined && (threshold < 0 || threshold > 255))
ThresholdInvalid_AsUpperExclusive(config) ==
  HasThreshold(config)
    /\ (config.threshold < 0 \/ config.threshold >= 2 * 255)

ThresholdInvalid(config) ==
  HasThreshold(config)
    /\ (config.threshold < 0 \/ config.threshold > 2 * 255)

\* the message of the Error validateConfig throws, NoError when it returns
validateConfig_AsThresholdFirst(config, imageData) ==
  IF ThresholdInvalid(config) THEN ErrThreshold
  ELSE IF OffsetInvalid(config) THEN ErrOffset
  ELSE IF WindowSizeInvalid(config) THEN ErrWindowSize
  ELSE IF MatrixSizeInvalid(config) THEN ErrMatrixSize
  ELSE IF WindowOutOfBounds(config, imageData) THEN ErrBounds
  ELSE NoError

validateConfig(config, imageData) ==
  IF OffsetInvalid(config) THEN ErrOffset
  ELSE IF WindowSizeInvalid(config) THEN ErrWindowSize
  ELSE IF MatrixSizeInvalid(config) THEN ErrMatrixSize
  ELSE IF WindowOutOfBounds(config, imageData) THEN ErrBounds
  ELSE IF ThresholdInvalid(config) THEN ErrThreshold
  ELSE NoError

\* threshold = 128 in the destructuring of config
ThresholdOf(config) ==
  IF HasThreshold(config) THEN config.threshold ELSE 2 * 128

\* ToLength of a positive number: Array.from({ length }) truncates
ToLength(halves) == halves \div 2

cellWidth(config) == FDiv(config.windowWidth, config.columns)

cellHeight(config) == FDiv(config.windowHeight, config.rows)

\* offsetX + (col + 0.5) * cellWidth
sampleX(config, col) ==
  FAdd(FHalves(config.offsetX), FMulHalves(cellWidth(config), 2 * col + 1))

\* offsetY + (row + 0.5) * cellHeight
sampleY(config, row) ==
  FAdd(FHalves(config.offsetY), FMulHalves(cellHeight(config), 2 * row + 1))

\* number of passes of  for (let i = 0; i < n; i++)  for n > 0 in halves
Iterations(halves) == (halves + 1) \div 2

\* sampleX of every pass of the column loop, sampleY of every pass of the
\* row loop (the code recomputes them in each cell, with the same result)
ColumnSamples(config) ==
  [c \in 1..Iterations(config.columns) |-> sampleX(config, c - 1)] \o <<>>

RowSamples(config) ==
  [r \in 1..Iterations(config.rows) |-> sampleY(config, r - 1)] \o <<>>

\* brightness >= threshold for the pixel rgb
IsBright(rgb, config) ==
  FGe(calculateBrightness(rgb[1], rgb[2], rgb[3]),
      FHalves(ThresholdOf(config)))

\* brightness >= threshold of the pixel getPixelAt returns
CellValue(imageData, config, x, y) ==
  IsBright(getPixelAt(imageData, x, y), config)

\* Array.from({ length: rows }, () => Array.from({ length: columns }, ...))
EmptyMatrix_AsTransposed(config) ==
  [r \in 1..ToLength(config.columns) |->
     [c \in 1..ToLength(config.rows) |-> FALSE]]

EmptyMatrix(config) ==
  [r \in 1..ToLength(config.rows) |->
     [c \in 1..ToLength(config.columns) |-> FALSE]]

\* The two nested for loops on the matrix empty, with the sample
\* coordinates xs of the passes of the column loop and ys of the passes of
\* the row loop; full is the number of row passes that find their row.
\* Rows and columns are counted from 0 as in the code.  Pass col of the
\* column loop stores into matrix[row][col], which appends to the row when
\* col is its current length (a fractional columns).  A row pass with
\* row = matrix.length (a fractional rows) reads its first pixel and then
\* fails on matrix[row]![col] = ... with a TypeError.  reads lists the
\* coordinates Math.floor(x), Math.floor(y) and the buffer indices
\* getPixelAt computed.
FillMatrix(imageData, config, empty, xs, ys, full) ==
  Strict(<<empty, xs, ys, full>>,
    [matrix |->
       [r \in 1..Len(empty) |->
          IF r > full THEN empty[r]
          ELSE [c \in 1..(IF Len(empty[r]) > Len(xs) THEN Len(empty[r])
                          ELSE Len(xs)) |->
                  IF c <= Len(xs)
                  THEN CellValue(imageData, config, xs[c], ys[r])
                  ELSE empty[r][c]]],
     reads |->
       [k \in 1..((IF Len(ys) > full /\ Len(xs) > 0 THEN 1 ELSE 0)
                    + full * Len(xs)) |->
          [row   |-> (k - 1) \div Len(xs),
           col   |-> (k - 1) % Len(xs),
           x     |-> FFloor(xs[((k - 1) % Len(xs)) + 1]),
           y     |-> FFloor(ys[((k - 1) \div Len(xs)) + 1]),
           index |-> PixelIndex(imageData, xs[((k - 1) % Len(xs)) + 1],
                                ys[((k - 1) \div Len(xs)) + 1])]],
     error |->
       IF Len(ys) > full /\ Len(xs) > 0 THEN ErrTypeError ELSE NoError])

\* the smaller of two numbers
Min(a, b) == IF a < b THEN a ELSE b

\* the loops of analyzeFrame on the freshly allocated matrix
LoopsOn(imageData, config, empty, xs, ys) ==
  FillMatrix(imageData, config, empty, xs, ys, Min(Len(ys), Len(empty)))

SampleLoops(imageData, config) ==
  LoopsOn(imageData, config, EmptyMatrix(config), ColumnSamples(config),
          RowSamples(config))

\* what analyzeFrame hands back after the loops st
Outcome_AsThresholdFilled(st, config, time) ==
  IF st.error # NoError
  THEN [kind |-> "throw", error |-> st.error, reads |-> st.reads]
  ELSE [kind |-> "result", matrix |-> st.matrix,
        config |-> [f \in DOMAIN config \cup {"threshold"} |->
                      IF f = "threshold" THEN ThresholdOf(config)
                      ELSE config[f]],
        timestamp |-> time, reads |-> st.reads]

Outcome(st, config, time) ==
  IF st.error # NoError
  THEN [kind |-> "throw", error |-> st.error, reads |-> st.reads]
  ELSE [kind |-> "result", matrix |-> st.matrix, config |-> config,
        timestamp |-> time, reads |-> st.reads]

\* the outcome of analyzeFrame(imageData, config) at clock reading time
analyzeFrame_AsReadFirst(imageData, config, time) ==
  IF validateConfig(config, imageData) # NoError
  THEN [kind |-> "throw", error |-> validateConfig(config, imageData),
        reads |-> <<[row |-> 0, col |-> 0, x |-> 0, y |-> 0, index |-> 0]>>]
  ELSE Outcome(SampleLoops(imageData, config), config, time)

analyzeFrame(imageData, config, time) ==
  IF validateConfig(config, imageData) # NoError
  THEN [kind |-> "throw", error |-> validateConfig(config, imageData),
        reads |-> <<>>]
  ELSE Outcome(SampleLoops(imageData, config), config, time)

\* createDefaultConfig(imageWidth, imageHeight), fields in halves
createDefaultConfig(imageWidth, imageHeight) ==
  [offsetX      |-> 2 * 236,
   offsetY      |-> 2 * 112,
   windowWidth  |-> 2 * 168,
   windowHeight |-> 2 * 224,
   rows         |-> 2 * 64,
   columns      |-> 2 * 42,
   threshold    |-> 2 * 128]

(***************************************************************************)
(* Pixel buffers, as the test helpers of analyzer.test.ts build them.      *)
(***************************************************************************)
\* createTestImageData(width, height, fillValue), with the ImageData of the
\* test setup: this.height = height || data.length / (width * 4), which is
\* 0 / 0 for a buffer of 0 by 0
createTestImageData(width, height, fillValue) ==
  [width  |-> width,
   height |-> IF height # 0 THEN height
              ELSE IF width = 0 THEN "NaN" ELSE 0,
   data   |-> [i \in 1..(width * height * 4) |->
                 IF i % 4 = 0 THEN 255 ELSE fillValue]]

\* createCheckerboardImageData(width, height, cellSize), with the same
\* ImageData
createCheckerboardImageData(width, height, cellSize) ==
  [width  |-> width,
   height |-> IF height # 0 THEN height
              ELSE IF width = 0 THEN "NaN" ELSE 0,
   data   |-> [i \in 1..(width * height * 4) |->
                 LET p     == (i - 1) \div 4
                     x     == p % width
                     y     == p \div width
                     cellX == x \div cellSize
                     cellY == y \div cellSize
                 IN  IF i % 4 = 0 THEN 255
                     ELSE IF (cellX + cellY) % 2 = 0 THEN 255 ELSE 0]]

(***************************************************************************)
(* Inputs.  Config values are in halves.                                   *)
(***************************************************************************)
BufferWidth == 30

BufferHeight == 2

MaxClock == 1

FillValues == {50, 128, 255}

Images ==
  {createTestImageData(BufferWidth, BufferHeight, v) : v \in FillValues}
    \cup {createCheckerboardImageData(BufferWidth, BufferHeight,
                                      BufferWidth \div 2)}

OffsetXs == {-2, 0, 2}

OffsetYs == {-2, 0, 2}

WindowWidths == {-2, 0, 5, 2 * BufferWidth}

WindowHeights == {0, 2, 2 * BufferHeight}

RowCounts == {0, 2, 3, 20}

ColumnCounts == {0, 2, 5, 20, 22}

Thresholds == {-2, 0, 100, 2 * 255, 600}

Configs ==
  [offsetX : OffsetXs, offsetY : OffsetYs,
   windowWidth : WindowWidths, windowHeight : WindowHeights,
   rows : RowCounts, columns : ColumnCounts]
    \cup
  [offsetX : OffsetXs, offsetY : OffsetYs,
   windowWidth : WindowWidths, windowHeight : WindowHeights,
   rows : RowCounts, columns : ColumnCounts, threshold : Thresholds]

(***************************************************************************)
(* State.  imageData, config and result are the arguments and the outcome  *)
(* of one call of analyzeFrame; dimensions, defaults and defaultsVerdict    *)
(* are the arguments and the outcome of createDefaultConfig and the        *)
(* verdict of validateConfig on it; calls lists the calls of analyzeFrame  *)
(* made so far by any caller, with their arguments and outcomes, and now   *)
(* is the reading of the clock; processor holds the fields of a           *)
(* FrameProcessor or OffscreenFrameProcessor, browser the capabilities of  *)
(* the page and the frame requests it has pending, and observed records    *)
(* what the last handler of the processor did; heap holds the objects      *)
(* allocated so far, by address, held the results consumers keep, owned    *)
(* the configuration object of each caller and active the caller whose     *)
(* result callback is running; camera holds the fields of a CameraManager  *)
(* and media the streams and requests of navigator.mediaDevices.           *)
(***************************************************************************)
VARIABLES imageData, config, result,
          dimensions, defaults, defaultsVerdict,
          calls, now,
          processor, browser, observed,
          heap, held, owned, active,
          camera, media,
          demo

analyzerVars == <<imageData, config, result>>

defaultsVars == <<dimensions, defaults, defaultsVerdict>>

callsVars == <<calls, now>>

processorVars == <<processor, browser, observed>>

heapVars == <<heap, held, owned, active>>

cameraVars == <<camera, media>>

demoVars == <<demo>>

vars == <<analyzerVars, defaultsVars, callsVars, processorVars, heapVars,
          cameraVars, demoVars>>

NoResult == [kind |-> "none"]

\* no call of analyzeFrame is being followed
AnalyzerUnused ==
  /\ imageData = createTestImageData(1, 1, 0)
  /\ config = createDefaultConfig(1, 1)
  /\ result = NoResult

NoConfig == [kind |-> "none"]

NoVerdict == "pending"

\* no call of createDefaultConfig is being followed
DefaultsUnused ==
  /\ dimensions = [imageWidth |-> 0, imageHeight |-> 0]
  /\ defaults = NoConfig
  /\ defaultsVerdict = NoVerdict

\* no sequence of calls is being followed
CallsUnused ==
  /\ calls = <<>>
  /\ now = 0

\* no processor has been constructed
ProcessorUnused ==
  /\ processor = [class |-> "none"]
  /\ browser = [pending |-> {}]
  /\ observed = [handler |-> "none"]

\* no object has been allocated
HeapUnused ==
  /\ heap = <<>>
  /\ held = <<>>
  /\ owned = <<>>
  /\ active = "none"

\* no CameraManager has been constructed
CameraUnused ==
  /\ camera = [class |-> "none"]
  /\ media = [streams |-> <<>>]

\* no demo page has been loaded
DemoUnused == demo = [class |-> "none"]

(***************************************************************************)
(* One call of analyzeFrame on an input drawn at the start.                *)
(***************************************************************************)
Init ==
  /\ imageData \in Images
  /\ config \in Configs
  /\ result = NoResult
  /\ DefaultsUnused
  /\ CallsUnused
  /\ ProcessorUnused
  /\ HeapUnused
  /\ CameraUnused
  /\ DemoUnused

\* result = analyzeFrame(imageData, config); Date.now() reads the clock
AnalyzeFrame ==
  /\ result = NoResult
  /\ \E time \in 0..MaxClock :
       result' = analyzeFrame(imageData, config, time)
  /\ UNCHANGED <<imageData, config>>
  /\ UNCHANGED <<defaultsVars, callsVars, processorVars>>
  /\ UNCHANGED <<heapVars, cameraVars, demoVars>>

Next == AnalyzeFrame

Spec == Init /\ [][Next]_vars

(***************************************************************************)
(* createDefaultConfig(imageWidth, imageHeight), then validateConfig on    *)
(* its configuration and a buffer of imageWidth x imageHeight pixels.      *)
(***************************************************************************)
ImageWidths == {1, 100, 403, 404, 640, 1920}

ImageHeights == {1, 100, 335, 336, 480, 1080}

DefaultsInit ==
  /\ dimensions \in [imageWidth : ImageWidths, imageHeight : ImageHeights]
  /\ defaults = NoConfig
  /\ defaultsVerdict = NoVerdict
  /\ AnalyzerUnused
  /\ CallsUnused
  /\ ProcessorUnused
  /\ HeapUnused
  /\ CameraUnused
  /\ DemoUnused

\* defaults = createDefaultConfig(imageWidth, imageHeight)
CreateDefaultConfig ==
  /\ defaults = NoConfig
  /\ defaults' =
       createDefaultConfig(dimensions.imageWidth, dimensions.imageHeight)
  /\ UNCHANGED <<dimensions, defaultsVerdict>>
  /\ UNCHANGED <<analyzerVars, callsVars, processorVars>>
  /\ UNCHANGED <<heapVars, cameraVars, demoVars>>

\* validateConfig(defaults, imageData) for a buffer of the dimensions given
\* to createDefaultConfig; validateConfig reads imageData.width and
\* imageData.height only
ValidateDefaults ==
  /\ defaults # NoConfig
  /\ defaultsVerdict = NoVerdict
  /\ defaultsVerdict' =
       validateConfig(defaults, [width  |-> dimensions.imageWidth,
                                 height |-> dimensions.imageHeight])
  /\ UNCHANGED <<dimensions, defaults>>
  /\ UNCHANGED <<analyzerVars, callsVars, processorVars>>
  /\ UNCHANGED <<heapVars, cameraVars, demoVars>>

DefaultsNext == CreateDefaultConfig \/ ValidateDefaults

DefaultsSpec == DefaultsInit /\ [][DefaultsNext]_vars

(***************************************************************************)
(* A sequence of calls of analyzeFrame.  analyzeFrame and the functions it *)
(* calls are module-level functions that read and write no variable other  *)
(* than their parameters and locals, so a call has its arguments and the   *)
(* clock as only inputs.                                                   *)
(***************************************************************************)
MaxCalls == 3

CallImages ==
  {createTestImageData(BufferWidth, BufferHeight, 128),
   createCheckerboardImageData(BufferWidth, BufferHeight,
                               BufferWidth \div 2)}

\* the whole buffer as a 1 x 10 grid, with the default threshold or with
\* 50, and the same with a negative offsetX
CallConfigs ==
  {c \in Configs :
     /\ c.offsetX \in {-2, 0} /\ c.offsetY = 0
     /\ c.windowWidth = 2 * BufferWidth
     /\ c.windowHeight = 2 * BufferHeight
     /\ c.rows = 2 /\ c.columns = 20
     /\ HasThreshold(c) => c.threshold = 2 * 50}

CallsInit ==
  /\ calls = <<>>
  /\ now = 0
  /\ AnalyzerUnused
  /\ DefaultsUnused
  /\ ProcessorUnused
  /\ HeapUnused
  /\ CameraUnused
  /\ DemoUnused

\* analyzeFrame(image, cfg) by some caller
CallAnalyzeFrame_AsLastConfigKept ==
  /\ Len(calls) < MaxCalls
  /\ \E image \in CallImages, cfg \in CallConfigs :
       calls' = Append(calls,
                  [imageData |-> image,
                   config    |-> cfg,
                   outcome   |->
                     analyzeFrame(image,
                                  IF calls = <<>> THEN cfg
                                  ELSE calls[Len(calls)].config,
                                  now)])
  /\ UNCHANGED now
  /\ UNCHANGED <<analyzerVars, defaultsVars, processorVars>>
  /\ UNCHANGED <<heapVars, cameraVars, demoVars>>

CallAnalyzeFrame ==
  /\ Len(calls) < MaxCalls
  /\ \E image \in CallImages, cfg \in CallConfigs :
       calls' = Append(calls,
                  [imageData |-> image,
                   config    |-> cfg,
                   outcome   |-> analyzeFrame(image, cfg, now)])
  /\ UNCHANGED now
  /\ UNCHANGED <<analyzerVars, defaultsVars, processorVars>>
  /\ UNCHANGED <<heapVars, cameraVars, demoVars>>

\* time passes between calls
Tick ==
  /\ now < MaxClock
  /\ now' = now + 1
  /\ UNCHANGED calls
  /\ UNCHANGED <<analyzerVars, defaultsVars, processorVars>>
  /\ UNCHANGED <<heapVars, cameraVars, demoVars>>

CallsNext == CallAnalyzeFrame \/ Tick

CallsSpec == CallsInit /\ [][CallsNext]_vars

(***************************************************************************)
(* src/browser/frame-processor.ts: FrameProcessor and                      *)
(* OffscreenFrameProcessor.  JavaScript runs a handler to its end before   *)
(* the next one starts, so start, stop, updateConfig and a frame           *)
(* notification (the browser calling processFrame) are one step each; the  *)
(* callback runs inside processFrame and may itself call stop.             *)
(***************************************************************************)
Null == "null"

\* animationId: number | null
NullId == 0

MaxRequests == 4

\* no frame
NoFrame == [width |-> 0, height |-> 0, data |-> <<>>]

\* the frame getImageData returns, and no frame for a canvas of width 0,
\* which makes it throw
VideoFrames ==
  {createTestImageData(2, 2, 200), NoFrame}

\* a 1 x 1 grid on the whole frame with threshold 128 or 250, and the
\* same with threshold 300
ProcessorConfigs ==
  {[offsetX |-> 0, offsetY |-> 0, windowWidth |-> 4, windowHeight |-> 4,
    rows |-> 2, columns |-> 2, threshold |-> t] :
     t \in {2 * 128, 2 * 250, 2 * 300}}

\* requestAnimationFrame(processFrame), returning the id nextId
RequestAnimationFrame(b) ==
  [b EXCEPT !.pending = @ \cup {[id |-> b.nextId, queue |-> "animation"]},
            !.nextId = @ + 1]

\* video.requestVideoFrameCallback(processFrame)
RequestVideoFrameCallback(b) ==
  [b EXCEPT !.pending = @ \cup {[id |-> b.nextId, queue |-> "video"]},
            !.nextId = @ + 1]

\* cancelAnimationFrame(id)
CancelAnimationFrame(b, id) ==
  [b EXCEPT !.pending = @ \ {[id |-> id, queue |-> "animation"]}]

\* 'requestVideoFrameCallback' in HTMLVideoElement.prototype && this.video
UsesVideoFrameCallback(p, b) == b.videoFrameCallbacks /\ p.video # Null

\* stop(): the processor and the browser afterwards
stop(p, b) ==
  [processor |-> [p EXCEPT !.isProcessing = FALSE, !.animationId = NullId],
   browser   |->
     IF p.animationId # NullId
          /\ (p.class = "OffscreenFrameProcessor"
                \/ ~UsesVideoFrameCallback(p, b))
     THEN CancelAnimationFrame(b, p.animationId)
     ELSE b]

\* scheduleNextFrame(), and the last statement of
\* OffscreenFrameProcessor.processFrame
scheduleNextFrame(p, b) ==
  IF ~p.isProcessing THEN [processor |-> p, browser |-> b]
  ELSE IF p.class = "FrameProcessor" /\ UsesVideoFrameCallback(p, b)
  THEN [processor |-> p, browser |-> RequestVideoFrameCallback(b)]
  ELSE [processor |-> [p EXCEPT !.animationId = b.nextId],
        browser   |-> RequestAnimationFrame(b)]

\* the guard of processFrame
CanProcess_AsFlagIgnored(p) ==
  /\ p.video # Null /\ p.config # NoConfig /\ p.callback # Null
  /\ p.class = "OffscreenFrameProcessor"
       => (p.ctx # Null /\ p.offscreenCanvas # Null)

CanProcess(p) ==
  /\ p.isProcessing
  /\ p.video # Null /\ p.config # NoConfig /\ p.callback # Null
  /\ p.class = "OffscreenFrameProcessor"
       => (p.ctx # Null /\ p.offscreenCanvas # Null)

\* the try block up to the call of analyzeFrame: getImageData throws on an
\* empty canvas, before analyzeFrame is called
FrameAnalysis(frame, cfg) ==
  IF frame.width = 0 THEN [kind |-> "unreadable"]
  ELSE analyzeFrame(frame, cfg, 0)

\* what the catch block of processFrame caught: the Error of getImageData,
\* of analyzeFrame or of the callback, which is called with a result only
Caught(analysis, throws) ==
  IF analysis.kind = "unreadable" THEN "getImageData"
  ELSE IF analysis.kind = "throw" THEN "analyzeFrame"
  ELSE IF throws THEN "callback"
  ELSE "none"

\* the end of processFrame, after the try block left processor and browser
\* as in pb; throws when the callback threw
EndOfFrame_AsCallbackAfterCatch(pb, analysis, throws) ==
  [processor |-> scheduleNextFrame(pb.processor, pb.browser).processor,
   browser   |-> scheduleNextFrame(pb.processor, pb.browser).browser,
   analysed  |-> analysis.kind # "unreadable",
   delivered |-> TRUE,
   outcome   |-> analysis,
   caught    |-> Caught(analysis, throws)]

EndOfFrame_AsScheduledInTry(pb, analysis, throws) ==
  [processor |-> IF Caught(analysis, throws) = "none"
                 THEN scheduleNextFrame(pb.processor, pb.browser).processor
                 ELSE pb.processor,
   browser   |-> IF Caught(analysis, throws) = "none"
                 THEN scheduleNextFrame(pb.processor, pb.browser).browser
                 ELSE pb.browser,
   analysed  |-> analysis.kind # "unreadable",
   delivered |-> analysis.kind = "result",
   outcome   |-> analysis,
   caught    |-> Caught(analysis, throws)]

EndOfFrame(pb, analysis, throws) ==
  [processor |-> scheduleNextFrame(pb.processor, pb.browser).processor,
   browser   |-> scheduleNextFrame(pb.processor, pb.browser).browser,
   analysed  |-> analysis.kind # "unreadable",
   delivered |-> analysis.kind = "result",
   outcome   |-> analysis,
   caught    |-> Caught(analysis, throws)]

\* processFrame() with the outcome of its try block; the callback, which
\* is called with a result only, calls stop() when stops and ends with an
\* Error when throws
processFrame(p, b, analysis, stops, throws) ==
  IF ~CanProcess(p)
  THEN [processor |-> p, browser |-> b, analysed |-> FALSE,
        delivered |-> FALSE, outcome |-> [kind |-> "none"],
        caught |-> "none"]
  ELSE EndOfFrame(IF analysis.kind = "result" /\ stops THEN stop(p, b)
                  ELSE [processor |-> p, browser |-> b],
                  analysis, throws)

\* analyzeFrame threw one of the errors of validateConfig
ValidationFailed(outcome) ==
  /\ outcome.kind = "throw"
  /\ outcome.error \in {ErrOffset, ErrWindowSize, ErrMatrixSize, ErrBounds,
                        ErrThreshold}

\* the state after a handler that ran processFrame on frame with outcome
\* r; halted and rejected are their values before the callback, latest is
\* the configuration last given to start or updateConfig and setBy the one
\* of the two that took it; replaced tells that, since start(), updateConfig
\* has replaced a configuration that had failed validation.  observed keeps
\* the frame the video showed, whether processFrame went past its guard,
\* the result the callback was called with and what the catch block caught.
AfterFrame(r, handler, stops, halted, rejected, frame, latest, setBy) ==
  /\ processor' = r.processor
  /\ browser' = r.browser
  /\ observed' =
       [handler   |-> handler,
        analysed  |-> r.analysed,
        delivered |-> r.delivered,
        halted    |-> halted \/ (r.delivered /\ stops),
        rejected  |-> IF ValidationFailed(r.outcome) THEN r.processor.config
                      ELSE rejected,
        frame     |-> frame,
        ran       |-> r.outcome.kind # "none",
        passed    |-> IF r.delivered THEN r.outcome ELSE NoResult,
        caught    |-> r.caught,
        latest    |-> latest,
        setBy     |-> setBy,
        replaced  |-> handler # "start" /\ observed.replaced]

\* what the constructors leave
NewProcessors ==
  {[class |-> "FrameProcessor", video |-> Null, config |-> NoConfig,
    callback |-> Null, isProcessing |-> FALSE, animationId |-> NullId,
    ctx |-> "context", offscreenCanvas |-> Null]}
    \cup
  {[class |-> "OffscreenFrameProcessor", video |-> Null, config |-> NoConfig,
    callback |-> Null, isProcessing |-> FALSE, animationId |-> NullId,
    ctx |-> c, offscreenCanvas |-> o] :
      c \in {Null, "context"}, o \in {Null, "canvas"}}

ProcessorInit ==
  /\ browser \in [videoFrameCallbacks : BOOLEAN,
                  offscreenCanvas : BOOLEAN,
                  pending : {{}},
                  nextId : {1}]
  /\ processor \in
       {p \in NewProcessors :
          /\ p.offscreenCanvas # Null
               => (p.class = "OffscreenFrameProcessor"
                     /\ browser.offscreenCanvas)
          /\ (p.class = "OffscreenFrameProcessor" /\ p.ctx # Null)
               => p.offscreenCanvas # Null}
  /\ observed = [handler |-> "none", analysed |-> FALSE,
                 delivered |-> FALSE, halted |-> FALSE, rejected |-> NoConfig,
                 frame |-> NoFrame, ran |-> FALSE, passed |-> NoResult,
                 caught |-> "none", latest |-> NoConfig, setBy |-> "none",
                 replaced |-> FALSE]
  /\ AnalyzerUnused
  /\ DefaultsUnused
  /\ CallsUnused
  /\ HeapUnused
  /\ CameraUnused
  /\ DemoUnused

\* start(video, cfg, callback); OffscreenFrameProcessor.start throws
\* without canvas or context
Start ==
  /\ browser.nextId <= MaxRequests
  /\ UNCHANGED <<analyzerVars, defaultsVars, callsVars>>
  /\ UNCHANGED <<heapVars, cameraVars, demoVars>>
  /\ IF processor.class = "OffscreenFrameProcessor"
          /\ (processor.offscreenCanvas = Null \/ processor.ctx = Null)
     THEN /\ observed' = [observed EXCEPT !.handler = "start",
                                          !.analysed = FALSE,
                                          !.delivered = FALSE,
                                          !.frame = NoFrame,
                                          !.ran = FALSE,
                                          !.passed = NoResult,
                                          !.caught = "none"]
          /\ UNCHANGED <<processor, browser>>
     ELSE \E cfg \in ProcessorConfigs, frame \in VideoFrames,
             stops, throws \in BOOLEAN :
            AfterFrame(processFrame([processor EXCEPT
                                       !.video = "video",
                                       !.config = cfg,
                                       !.callback = "callback",
                                       !.isProcessing = TRUE],
                                    browser, FrameAnalysis(frame, cfg),
                                    stops, throws),
                       "start", stops, FALSE, NoConfig, frame, cfg, "start")

\* stop()
Stop ==
  /\ processor' = stop(processor, browser).processor
  /\ browser' = stop(processor, browser).browser
  /\ observed' = [observed EXCEPT !.handler = "stop", !.analysed = FALSE,
                                  !.delivered = FALSE, !.halted = TRUE,
                                  !.frame = NoFrame, !.ran = FALSE,
                                  !.passed = NoResult, !.caught = "none"]
  /\ UNCHANGED <<analyzerVars, defaultsVars, callsVars>>
  /\ UNCHANGED <<heapVars, cameraVars, demoVars>>

\* updateConfig(cfg)
UpdateConfig_AsIgnoredWhileRunning ==
  /\ \E cfg \in ProcessorConfigs :
       /\ processor' = IF processor.isProcessing THEN processor
                       ELSE [processor EXCEPT !.config = cfg]
       /\ observed' = [observed EXCEPT !.handler = "updateConfig",
                                       !.analysed = FALSE,
                                       !.delivered = FALSE,
                                       !.rejected = NoConfig,
                                       !.frame = NoFrame, !.ran = FALSE,
                                       !.passed = NoResult,
                                       !.caught = "none", !.latest = cfg,
                                       !.setBy = "updateConfig",
                                       !.replaced =
                                         @ \/ observed.rejected # NoConfig]
  /\ UNCHANGED browser
  /\ UNCHANGED <<analyzerVars, defaultsVars, callsVars>>
  /\ UNCHANGED <<heapVars, cameraVars, demoVars>>

UpdateConfig ==
  /\ \E cfg \in ProcessorConfigs :
       /\ processor' = [processor EXCEPT !.config = cfg]
       /\ observed' = [observed EXCEPT !.handler = "updateConfig",
                                       !.analysed = FALSE,
                                       !.delivered = FALSE,
                                       !.rejected = NoConfig,
                                       !.frame = NoFrame, !.ran = FALSE,
                                       !.passed = NoResult,
                                       !.caught = "none", !.latest = cfg,
                                       !.setBy = "updateConfig",
                                       !.replaced =
                                         @ \/ observed.rejected # NoConfig]
  /\ UNCHANGED browser
  /\ UNCHANGED <<analyzerVars, defaultsVars, callsVars>>
  /\ UNCHANGED <<heapVars, cameraVars, demoVars>>

\* the browser runs a pending request: processFrame()
FrameNotification ==
  /\ browser.nextId <= MaxRequests
  /\ UNCHANGED <<analyzerVars, defaultsVars, callsVars>>
  /\ UNCHANGED <<heapVars, cameraVars, demoVars>>
  /\ \E request \in browser.pending, frame \in VideoFrames,
        stops, throws \in BOOLEAN :
       \E r \in {processFrame(processor,
                               [browser EXCEPT !.pending = @ \ {request}],
                               FrameAnalysis(frame, processor.config),
                               stops, throws)} :
         AfterFrame(r, "processFrame", stops, observed.halted,
                    observed.rejected, frame, observed.latest, observed.setBy)

ProcessorNext == Start \/ Stop \/ UpdateConfig \/ FrameNotification

ProcessorSpec == ProcessorInit /\ [][ProcessorNext]_vars

\* the browser runs a request it holds: the callback of a pending request
\* is called in the end
ProcessorFairSpec == ProcessorSpec /\ WF_vars(FrameNotification)

(***************************************************************************)
(* Results as objects.  A configuration, an array and a result are objects *)
(* with an identity: heap lists the objects allocated so far and an        *)
(* address is an index into it.  Two callers, each with a frame and a      *)
(* configuration object of its own, call analyzeFrame in turn, or from     *)
(* inside the result callback of the other; a caller may afterwards write  *)
(* a field of its configuration object or take a new one.                  *)
(***************************************************************************)
MaxHeld == 3

Callers == {"A", "B"}

\* the frame each caller analyses
CallerImage(caller) ==
  IF caller = "A" THEN createTestImageData(2, 2, 200)
  ELSE createTestImageData(3, 1, 50)

\* the configuration each caller starts with: a 2 x 2 grid with threshold
\* 128 for A, a 1 x 3 grid without threshold for B
CallerConfig(caller) ==
  IF caller = "A"
  THEN [offsetX |-> 0, offsetY |-> 0, windowWidth |-> 4, windowHeight |-> 4,
        rows |-> 4, columns |-> 4, threshold |-> 2 * 128]
  ELSE [offsetX |-> 0, offsetY |-> 0, windowWidth |-> 6, windowHeight |-> 2,
        rows |-> 2, columns |-> 6]

\* thresholds a caller sets later
LaterThresholds == {2 * 250}

\* cfg.threshold = t
SetThreshold(cfg, t) ==
  [f \in DOMAIN cfg \cup {"threshold"} |->
     IF f = "threshold" THEN t ELSE cfg[f]]

\* the object literal { matrix, config, timestamp } at the end of
\* analyzeFrame, for the matrix object at address matrix and the
\* configuration object the caller passed, at address ref
ResultObject(matrix, ref, time) ==
  [kind |-> "result", matrix |-> matrix, config |-> ref, timestamp |-> time]

\* Array.from({ length: rows }, () => Array.from({ length: columns }, ...)):
\* one new array per row and one for the matrix, after the objects of h
MatrixObjects(h, matrix) ==
  [r \in 1..Len(matrix) |-> [kind |-> "array", value |-> matrix[r]]]
    \o <<[kind  |-> "array",
          value |-> [r \in 1..Len(matrix) |-> Len(h) + r]]>>

\* the heap after analyzeFrame(imageData, <object at ref>) returned outcome:
\* the rows, the matrix and the result object are new, the result is last
Allocate(h, outcome, ref) ==
  h \o MatrixObjects(h, outcome.matrix)
    \o <<ResultObject(Len(h) + Len(outcome.matrix) + 1, ref,
                      outcome.timestamp)>>

\* the rows of the matrix object at address a, read through the heap
MatrixAt(h, a) == [r \in 1..Len(h[a].value) |-> h[h[a].value[r]].value]

\* what a consumer reads in the result object at address a
Contents(h, a) ==
  [matrix |-> MatrixAt(h, h[a].matrix), config |-> h[h[a].config].value]

\* analyzeFrame(frame of caller, configuration object at ref) after the
\* calls that returned the results kept
CallOutcome_AsMemoized(h, kept, caller, ref) ==
  analyzeFrame(CallerImage(caller),
               IF kept = <<>> THEN h[ref].value
               ELSE kept[Len(kept)].seen.config,
               0)

CallOutcome(h, kept, caller, ref) ==
  analyzeFrame(CallerImage(caller), h[ref].value, 0)

\* the heap h after the call, and the results kept with the new one, as its
\* consumer sees it on return; an Error leaves nothing
AfterCall(h, kept, caller, outcome, after) ==
  IF outcome.kind # "result" THEN [heap |-> h, held |-> kept]
  ELSE [heap |-> after,
        held |-> Append(kept, [caller    |-> caller,
                               imageData |-> CallerImage(caller),
                               result    |-> Len(after),
                               seen      |-> Contents(after, Len(after))])]

\* const result = analyzeFrame(imageData, this.config)
Call(h, kept, caller, ref, outcome) ==
  AfterCall(h, kept, caller, outcome,
            IF outcome.kind = "result" THEN Allocate(h, outcome, ref)
            ELSE h)

\* the addresses of the configuration objects the callers start with
HeapInitOwned == [caller \in Callers |-> IF caller = "A" THEN 1 ELSE 2]

HeapInit ==
  /\ heap = <<[kind |-> "config", value |-> CallerConfig("A")],
              [kind |-> "config", value |-> CallerConfig("B")]>>
  /\ owned = HeapInitOwned
  /\ held = <<>>
  /\ active = "none"
  /\ AnalyzerUnused
  /\ DefaultsUnused
  /\ CallsUnused
  /\ ProcessorUnused
  /\ CameraUnused
  /\ DemoUnused

\* processFrame of a caller: analyzeFrame, then the callback with the
\* result, which is running afterwards
ProcessFrame ==
  /\ active = "none"
  /\ Len(held) < MaxHeld
  /\ \E caller \in Callers :
       /\ heap' = Call(heap, held, caller, owned[caller],
                       CallOutcome(heap, held, caller, owned[caller])).heap
       /\ held' = Call(heap, held, caller, owned[caller],
                       CallOutcome(heap, held, caller, owned[caller])).held
       /\ active' =
            IF CallOutcome(heap, held, caller, owned[caller]).kind = "result"
            THEN caller ELSE "none"
  /\ UNCHANGED owned
  /\ UNCHANGED <<analyzerVars, defaultsVars, callsVars, processorVars>>
  /\ UNCHANGED <<cameraVars, demoVars>>

\* the running callback makes the other caller analyse its frame
CallbackAnalyzeFrame ==
  /\ active # "none"
  /\ Len(held) < MaxHeld
  /\ \E caller \in Callers \ {active} :
       /\ heap' = Call(heap, held, caller, owned[caller],
                       CallOutcome(heap, held, caller, owned[caller])).heap
       /\ held' = Call(heap, held, caller, owned[caller],
                       CallOutcome(heap, held, caller, owned[caller])).held
  /\ UNCHANGED <<owned, active>>
  /\ UNCHANGED <<analyzerVars, defaultsVars, callsVars, processorVars>>
  /\ UNCHANGED <<cameraVars, demoVars>>

\* the callback returns
CallbackReturns ==
  /\ active # "none"
  /\ active' = "none"
  /\ UNCHANGED <<heap, held, owned>>
  /\ UNCHANGED <<analyzerVars, defaultsVars, callsVars, processorVars>>
  /\ UNCHANGED <<cameraVars, demoVars>>

\* a caller writes the threshold of the configuration object it passes
ChangeConfig ==
  /\ \E caller \in Callers, t \in LaterThresholds :
       heap' = [heap EXCEPT ![owned[caller]].value = SetThreshold(@, t)]
  /\ UNCHANGED <<held, owned, active>>
  /\ UNCHANGED <<analyzerVars, defaultsVars, callsVars, processorVars>>
  /\ UNCHANGED <<cameraVars, demoVars>>

\* updateConfig(config) with a new configuration object, once per caller
ReplaceConfig ==
  /\ \E caller \in {c \in Callers : owned[c] = HeapInitOwned[c]} :
       /\ heap' = Append(heap,
                         [kind  |-> "config",
                          value |-> SetThreshold(CallerConfig(caller),
                                                 2 * 300)])
       /\ owned' = [owned EXCEPT ![caller] = Len(heap) + 1]
  /\ UNCHANGED <<held, active>>
  /\ UNCHANGED <<analyzerVars, defaultsVars, callsVars, processorVars>>
  /\ UNCHANGED <<cameraVars, demoVars>>

HeapNext ==
  \/ ProcessFrame
  \/ CallbackAnalyzeFrame
  \/ CallbackReturns
  \/ ChangeConfig
  \/ ReplaceConfig

HeapSpec == HeapInit /\ [][HeapNext]_vars

(***************************************************************************)
(* One call of analyzeFrame on a checkerboard, with a window that starts   *)
(* and ends on borders of squares and a grid of one cell per square.       *)
(***************************************************************************)
BoardSquares == 3

BoardSides == {1, 2, 25}

BoardThresholds == {0, 2 * 128, 2 * 255}

\* createCheckerboardImageData(width, height, cellSize) of the test
\* 'should handle window offset correctly', BoardSquares squares a side
BoardImage(side) ==
  createCheckerboardImageData(BoardSquares * side, BoardSquares * side, side)

\* a window of columns x rows squares, at most 2 x 2, whose first square is
\* the one in column left and row top of the board
BoardConfig(side, left, top, columns, rows) ==
  [offsetX      |-> 2 * left * side,
   offsetY      |-> 2 * top * side,
   windowWidth  |-> 2 * columns * side,
   windowHeight |-> 2 * rows * side,
   rows         |-> 2 * rows,
   columns      |-> 2 * columns]

BoardInit ==
  /\ \E side \in BoardSides :
       /\ imageData = BoardImage(side)
       /\ \E left, top \in 0..(BoardSquares - 1) :
            \E columns \in 1..Min(2, BoardSquares - left),
               rows \in 1..Min(2, BoardSquares - top) :
              \/ config = BoardConfig(side, left, top, columns, rows)
              \/ \E t \in BoardThresholds :
                   config = SetThreshold(BoardConfig(side, left, top,
                                                     columns, rows), t)
  /\ result = NoResult
  /\ DefaultsUnused
  /\ CallsUnused
  /\ ProcessorUnused
  /\ HeapUnused
  /\ CameraUnused
  /\ DemoUnused

BoardSpec == BoardInit /\ [][Next]_vars

(***************************************************************************)
(* CameraManager.  media lists the MediaStreams getUserMedia has handed    *)
(* out, each with the state of its tracks, the video elements created, the *)
(* getUserMedia promises not yet settled, the video elements a             *)
(* waitForVideoReady promise listens on and the outcome of the last call;  *)
(* a stream or a video element is named by its index, and 0 is null.       *)
(* acquired and created record that requestCamera() and                    *)
(* createVideoElement() have succeeded since the last stop().              *)
(***************************************************************************)
MaxStreams == 3

MaxVideos == 2

\* this.stream = null, this.video = null
NoObject == 0

ErrCameraAccess == "Failed to access camera"

ErrNoStream == "No camera stream available. Call requestCamera() first."

ErrNoVideoYet ==
  "No video element available. Call createVideoElement() first."

ErrNoVideo == "No video element available"

ErrVideoLoad == "Video failed to load"

\* what getUserMedia rejects with: an Error with a message, or a value
\* that is not an Error
Rejections ==
  {[isError |-> TRUE, message |-> "Permission denied"],
   [isError |-> FALSE, message |-> "denied"]}

\* error instanceof Error ? error.message : 'Unknown error'
MessageOf(rejection) ==
  IF rejection.isError THEN rejection.message ELSE "Unknown error"

\* a MediaStream as getUserMedia resolves it: one video track, live
NewStream == <<"live">>

\* stream.getTracks().forEach(track => track.stop())
StopTracks(stream) == [t \in 1..Len(stream) |-> "ended"]

\* the call, and how it ended: error is the message of the Error thrown up
\* to its colon, detail what follows the colon
Failed(call, error, detail) ==
  [call |-> call, error |-> error, detail |-> detail]

Ended(call, error) == Failed(call, error, "none")

CameraInit ==
  /\ camera = [class |-> "CameraManager", stream |-> NoObject,
               video |-> NoObject]
  /\ media = [streams |-> <<>>, videos |-> <<>>, requested |-> 0,
              waits |-> {}, acquired |-> FALSE, created |-> FALSE,
              last |-> Ended("none", NoError)]
  /\ AnalyzerUnused
  /\ DefaultsUnused
  /\ CallsUnused
  /\ ProcessorUnused
  /\ HeapUnused
  /\ DemoUnused

\* requestCamera() up to its await: getUserMedia has been called
RequestCamera ==
  /\ Len(media.streams) + media.requested < MaxStreams
  /\ media' = [media EXCEPT !.requested = @ + 1,
                            !.last = Ended("getUserMedia", NoError)]
  /\ UNCHANGED camera
  /\ UNCHANGED <<analyzerVars, defaultsVars, callsVars, processorVars>>
  /\ UNCHANGED <<heapVars, demoVars>>

\* getUserMedia resolves: requestCamera() stores the stream and returns it
CameraGranted ==
  /\ media.requested > 0
  /\ media' = [media EXCEPT !.streams = Append(@, NewStream),
                            !.requested = @ - 1,
                            !.acquired = TRUE,
                            !.last = Ended("requestCamera", NoError)]
  /\ camera' = [camera EXCEPT !.stream = Len(media.streams) + 1]
  /\ UNCHANGED <<analyzerVars, defaultsVars, callsVars, processorVars>>
  /\ UNCHANGED <<heapVars, demoVars>>

\* getUserMedia rejects: requestCamera() rejects from its catch block
CameraDenied_AsStreamCleared ==
  /\ media.requested > 0
  /\ \E rejection \in Rejections :
       media' = [media EXCEPT !.requested = @ - 1,
                              !.last = Failed("requestCamera",
                                              ErrCameraAccess,
                                              MessageOf(rejection))]
  /\ camera' = [camera EXCEPT !.stream = NoObject]
  /\ UNCHANGED <<analyzerVars, defaultsVars, callsVars, processorVars>>
  /\ UNCHANGED <<heapVars, demoVars>>

CameraDenied ==
  /\ media.requested > 0
  /\ \E rejection \in Rejections :
       media' = [media EXCEPT !.requested = @ - 1,
                              !.last = Failed("requestCamera",
                                              ErrCameraAccess,
                                              MessageOf(rejection))]
  /\ UNCHANGED camera
  /\ UNCHANGED <<analyzerVars, defaultsVars, callsVars, processorVars>>
  /\ UNCHANGED <<heapVars, demoVars>>

\* createVideoElement()
CreateVideoElement_AsUnguarded ==
  /\ Len(media.videos) < MaxVideos
  /\ media' = [media EXCEPT
                 !.videos = Append(@, [srcObject |-> camera.stream,
                                       paused    |-> FALSE,
                                       loaded    |-> FALSE]),
                 !.created = TRUE,
                 !.last = Ended("createVideoElement", NoError)]
  /\ camera' = [camera EXCEPT !.video = Len(media.videos) + 1]
  /\ UNCHANGED <<analyzerVars, defaultsVars, callsVars, processorVars>>
  /\ UNCHANGED <<heapVars, demoVars>>

CreateVideoElement ==
  /\ Len(media.videos) < MaxVideos
  /\ IF camera.stream = NoObject
     THEN /\ media' = [media EXCEPT
                         !.last = Ended("createVideoElement", ErrNoStream)]
          /\ UNCHANGED camera
     ELSE /\ media' = [media EXCEPT
                         !.videos = Append(@, [srcObject |-> camera.stream,
                                               paused    |-> FALSE,
                                               loaded    |-> FALSE]),
                         !.created = TRUE,
                         !.last = Ended("createVideoElement", NoError)]
          /\ camera' = [camera EXCEPT !.video = Len(media.videos) + 1]
  /\ UNCHANGED <<analyzerVars, defaultsVars, callsVars, processorVars>>
  /\ UNCHANGED <<heapVars, demoVars>>

\* waitForVideoReady(): rejects without a video element, resolves at once
\* when the metadata is loaded (readyState >= HAVE_METADATA), and listens
\* for loadedmetadata and error otherwise
WaitForVideoReady ==
  /\ media' =
       IF camera.video = NoObject
       THEN [media EXCEPT !.last = Ended("waitForVideoReady", ErrNoVideoYet)]
       ELSE IF media.videos[camera.video].loaded
       THEN [media EXCEPT !.last = Ended("waitForVideoReady", NoError)]
       ELSE [media EXCEPT !.waits = @ \cup {camera.video},
                          !.last = Failed("waitForVideoReady", NoError,
                                          "pending")]
  /\ UNCHANGED camera
  /\ UNCHANGED <<analyzerVars, defaultsVars, callsVars, processorVars>>
  /\ UNCHANGED <<heapVars, demoVars>>

\* an event on the video element v: a promise of waitForVideoReady that
\* listens on v settles, with error when it rejects
Settled(m, v, event, error) ==
  [m EXCEPT !.waits = @ \ {v},
            !.last = Ended(event, IF v \in m.waits THEN error ELSE NoError)]

\* loadedmetadata on a video element that shows a stream:
\* handleLoadedMetadata resolves
VideoLoaded ==
  /\ \E v \in 1..Len(media.videos) :
       /\ media.videos[v].srcObject # NoObject
       /\ ~media.videos[v].loaded
       /\ media' = Settled([media EXCEPT !.videos[v].loaded = TRUE], v,
                           "loadedmetadata", NoError)
  /\ UNCHANGED camera
  /\ UNCHANGED <<analyzerVars, defaultsVars, callsVars, processorVars>>
  /\ UNCHANGED <<heapVars, demoVars>>

\* error on a video element that is listened on: handleError rejects
VideoFailed ==
  /\ \E v \in media.waits : media' = Settled(media, v, "error", ErrVideoLoad)
  /\ UNCHANGED camera
  /\ UNCHANGED <<analyzerVars, defaultsVars, callsVars, processorVars>>
  /\ UNCHANGED <<heapVars, demoVars>>

\* getVideoDimensions()
GetVideoDimensions ==
  /\ media' = [media EXCEPT
                 !.last = Ended("getVideoDimensions",
                                IF camera.video = NoObject THEN ErrNoVideo
                                ELSE NoError)]
  /\ UNCHANGED camera
  /\ UNCHANGED <<analyzerVars, defaultsVars, callsVars, processorVars>>
  /\ UNCHANGED <<heapVars, demoVars>>

\* the streams after stop(): the tracks of this.stream are stopped
StreamsAfterStop(c, streams) ==
  IF c.stream = NoObject THEN streams
  ELSE [streams EXCEPT ![c.stream] = StopTracks(@)]

\* the video elements after stop(): this.video is paused and detached
VideosAfterStop(c, videos) ==
  IF c.video = NoObject THEN videos
  ELSE [videos EXCEPT ![c.video] = [srcObject |-> NoObject,
                                    paused    |-> TRUE,
                                    loaded    |-> FALSE]]

\* getVideoElement()
getVideoElement(c) == c.video

\* isActive()
isActive(c) == c.stream # NoObject /\ c.video # NoObject

\* stop()
CameraStop_AsStreamOnly ==
  /\ media' = [media EXCEPT
                 !.streams = StreamsAfterStop(camera, @),
                 !.acquired = FALSE,
                 !.created = FALSE,
                 !.last = Ended("stop", NoError)]
  /\ camera' = [camera EXCEPT !.stream = NoObject]
  /\ UNCHANGED <<analyzerVars, defaultsVars, callsVars, processorVars>>
  /\ UNCHANGED <<heapVars, demoVars>>

CameraStop ==
  /\ media' = [media EXCEPT
                 !.streams = StreamsAfterStop(camera, @),
                 !.videos = VideosAfterStop(camera, @),
                 !.acquired = FALSE,
                 !.created = FALSE,
                 !.last = Ended("stop", NoError)]
  /\ camera' = [camera EXCEPT !.stream = NoObject, !.video = NoObject]
  /\ UNCHANGED <<analyzerVars, defaultsVars, callsVars, processorVars>>
  /\ UNCHANGED <<heapVars, demoVars>>

CameraNext ==
  \/ RequestCamera
  \/ CameraGranted
  \/ CameraDenied
  \/ CreateVideoElement
  \/ WaitForVideoReady
  \/ VideoLoaded
  \/ VideoFailed
  \/ GetVideoDimensions
  \/ CameraStop

CameraSpec == CameraInit /\ [][CameraNext]_vars

(***************************************************************************)
(* FrameAnalyzerDemo: a CameraManager and, while the camera runs, a        *)
(* FrameProcessor on its video.  step is the await at which a call of      *)
(* startCamera() is suspended, disabled is toggleCamera.disabled, shown    *)
(* tells that the output element shows a matrix, stale lists the requests  *)
(* still pending for frame processors the demo has dropped, and timers      *)
(* counts the armed timers that will run updateCaptureOverlay().           *)
(***************************************************************************)
\* the timers that window resizes and unsized videos may keep armed
MaxTimers == 2

\* new FrameProcessor(canvas)
NewFrameProcessor ==
  CHOOSE p \in NewProcessors : p.class = "FrameProcessor"

DemoInit ==
  /\ demo = [class |-> "FrameAnalyzerDemo", isRunning |-> FALSE,
             disabled |-> FALSE, step |-> "idle", frameCount |-> 0,
             shown |-> FALSE, stale |-> {}, timers |-> 0]
  /\ camera = [class |-> "CameraManager", stream |-> NoObject,
               video |-> NoObject]
  /\ media = [streams |-> <<>>, videos |-> <<>>, requested |-> 0,
              waits |-> {}, acquired |-> FALSE, created |-> FALSE,
              last |-> Ended("none", NoError)]
  /\ browser \in [videoFrameCallbacks : BOOLEAN,
                  offscreenCanvas : BOOLEAN,
                  pending : {{}},
                  nextId : {1}]
  /\ processor = NewFrameProcessor
  /\ observed = [handler |-> "none", analysed |-> FALSE,
                 delivered |-> FALSE, halted |-> FALSE, rejected |-> NoConfig,
                 frame |-> NoFrame, ran |-> FALSE, passed |-> NoResult,
                 caught |-> "none", latest |-> NoConfig, setBy |-> "none",
                 replaced |-> FALSE]
  /\ AnalyzerUnused
  /\ DefaultsUnused
  /\ CallsUnused
  /\ HeapUnused

\* handleFrameResult(result), when the callback was called
handleFrameResult(d, delivered) ==
  IF delivered
  THEN [d EXCEPT !.frameCount = @ + 1, !.shown = TRUE]
  ELSE d

\* a click on toggleCamera while the camera is off: startCamera() up to
\* await this.cameraManager.requestCamera(...)
ClickStart ==
  /\ ~demo.disabled /\ ~demo.isRunning
  /\ Len(media.streams) + media.requested < MaxStreams
  /\ Len(media.videos) < MaxVideos
  /\ demo' = [demo EXCEPT !.disabled = TRUE, !.step = "requestCamera"]
  /\ media' = [media EXCEPT !.requested = @ + 1,
                            !.last = Ended("getUserMedia", NoError)]
  /\ UNCHANGED <<camera, processorVars>>
  /\ UNCHANGED <<analyzerVars, defaultsVars, callsVars, heapVars>>

\* getUserMedia resolves: startCamera() goes on with createVideoElement()
\* up to await this.cameraManager.waitForVideoReady()
StartGranted ==
  /\ demo.step = "requestCamera" /\ media.requested > 0
  /\ media' = [media EXCEPT
                 !.streams = Append(@, NewStream),
                 !.requested = @ - 1,
                 !.acquired = TRUE,
                 !.videos = Append(@, [srcObject |-> Len(media.streams) + 1,
                                       paused    |-> FALSE,
                                       loaded    |-> FALSE]),
                 !.created = TRUE,
                 !.waits = @ \cup {Len(media.videos) + 1},
                 !.last = Failed("waitForVideoReady", NoError, "pending")]
  /\ camera' = [camera EXCEPT !.stream = Len(media.streams) + 1,
                              !.video = Len(media.videos) + 1]
  /\ demo' = [demo EXCEPT !.step = "waitForVideoReady"]
  /\ UNCHANGED processorVars
  /\ UNCHANGED <<analyzerVars, defaultsVars, callsVars, heapVars>>

\* the catch block of startCamera()
StartFailed(d) == [d EXCEPT !.disabled = FALSE, !.step = "idle"]

\* getUserMedia rejects: requestCamera() rejects and startCamera() ends in
\* its catch block
StartDenied ==
  /\ demo.step = "requestCamera" /\ media.requested > 0
  /\ \E rejection \in Rejections :
       media' = [media EXCEPT !.requested = @ - 1,
                              !.last = Failed("requestCamera",
                                              ErrCameraAccess,
                                              MessageOf(rejection))]
  /\ demo' = StartFailed(demo)
  /\ UNCHANGED <<camera, processorVars>>
  /\ UNCHANGED <<analyzerVars, defaultsVars, callsVars, heapVars>>

\* loadedmetadata on the video: waitForVideoReady() resolves and
\* startCamera() goes on to its end, with updateControlRanges(),
\* createFrameProcessor() and startFrameProcessing(), which both call
\* getVideoDimensions(), and the timer for updateCaptureOverlay(); the
\* requests of the processor dropped before stay with the browser
StartReady ==
  /\ demo.step = "waitForVideoReady" /\ camera.video \in media.waits
  /\ browser.nextId <= MaxRequests
  /\ media' = [Settled([media EXCEPT !.videos[camera.video].loaded = TRUE],
                       camera.video, "loadedmetadata", NoError)
                 EXCEPT !.last = Ended("getVideoDimensions", NoError)]
  /\ UNCHANGED camera
  /\ UNCHANGED <<analyzerVars, defaultsVars, callsVars, heapVars>>
  /\ \E cfg \in ProcessorConfigs, frame \in VideoFrames :
     \E r \in {processFrame([NewFrameProcessor EXCEPT
                               !.video = "video",
                               !.config = cfg,
                               !.callback = "callback",
                               !.isProcessing = TRUE],
                            browser, FrameAnalysis(frame, cfg),
                            FALSE, FALSE)} :
       /\ AfterFrame(r, "start", FALSE, FALSE, NoConfig, frame, cfg, "start")
       /\ demo' = [handleFrameResult(demo, r.delivered) EXCEPT
                     !.isRunning = TRUE,
                     !.disabled = FALSE,
                     !.step = "idle",
                     !.stale = @ \cup {q.id : q \in browser.pending},
                     !.timers = @ + 1]

\* error on the video: waitForVideoReady() rejects and startCamera() ends
\* in its catch block
StartVideoFailed ==
  /\ demo.step = "waitForVideoReady" /\ camera.video \in media.waits
  /\ media' = Settled(media, camera.video, "error", ErrVideoLoad)
  /\ demo' = StartFailed(demo)
  /\ UNCHANGED <<camera, processorVars>>
  /\ UNCHANGED <<analyzerVars, defaultsVars, callsVars, heapVars>>

\* a click on toggleCamera while the camera runs: stopCamera()
ClickStop ==
  /\ ~demo.disabled /\ demo.isRunning
  /\ processor' = stop(processor, browser).processor
  /\ browser' = stop(processor, browser).browser
  /\ observed' = [observed EXCEPT !.handler = "stop", !.analysed = FALSE,
                                  !.delivered = FALSE, !.halted = TRUE,
                                  !.frame = NoFrame, !.ran = FALSE,
                                  !.passed = NoResult, !.caught = "none"]
  /\ media' = [media EXCEPT
                 !.streams = StreamsAfterStop(camera, @),
                 !.videos = VideosAfterStop(camera, @),
                 !.acquired = FALSE,
                 !.created = FALSE,
                 !.last = Ended("stop", NoError)]
  /\ camera' = [camera EXCEPT !.stream = NoObject, !.video = NoObject]
  /\ demo' = [demo EXCEPT !.isRunning = FALSE, !.disabled = FALSE,
                          !.frameCount = 0, !.shown = FALSE]
  /\ UNCHANGED <<analyzerVars, defaultsVars, callsVars, heapVars>>

\* video.videoWidth, video.videoHeight, video.offsetWidth and
\* video.offsetHeight are all above 0: the video element shows frame and
\* is laid out
Sized(frame, displayed) ==
  frame.width # 0 /\ frame.height # 0 /\ displayed

\* input on a range control: updateConfiguration(), with getCurrentConfig()
\* calling getVideoDimensions(), and updateCaptureOverlay(), which calls it
\* again for a sized video and arms a timer otherwise; the manager has its
\* video for as long as isRunning is true
InputConfig ==
  /\ demo.isRunning
  /\ media' = [media EXCEPT !.last = Ended("getVideoDimensions", NoError)]
  /\ UNCHANGED camera
  /\ \E frame \in VideoFrames, displayed \in BOOLEAN :
       IF Sized(frame, displayed)
       THEN UNCHANGED demo
       ELSE /\ demo.timers < MaxTimers
            /\ demo' = [demo EXCEPT !.timers = @ + 1]
  /\ \E cfg \in ProcessorConfigs :
       /\ processor' = [processor EXCEPT !.config = cfg]
       /\ observed' = [observed EXCEPT !.handler = "updateConfig",
                                       !.analysed = FALSE,
                                       !.delivered = FALSE,
                                       !.rejected = NoConfig,
                                       !.frame = NoFrame, !.ran = FALSE,
                                       !.passed = NoResult,
                                       !.caught = "none", !.latest = cfg,
                                       !.setBy = "updateConfig",
                                       !.replaced =
                                         @ \/ observed.rejected # NoConfig]
  /\ UNCHANGED browser
  /\ UNCHANGED <<analyzerVars, defaultsVars, callsVars, heapVars>>

\* resize of the window while the camera runs: the handler arms a timer
\* for updateCaptureOverlay()
WindowResize ==
  /\ demo.isRunning
  /\ demo.timers < MaxTimers
  /\ demo' = [demo EXCEPT !.timers = @ + 1]
  /\ UNCHANGED <<cameraVars, processorVars>>
  /\ UNCHANGED <<analyzerVars, defaultsVars, callsVars, heapVars>>

\* a timer runs updateCaptureOverlay(): it returns at once when the camera
\* is off, arms a timer again while the video is not sized, and calls
\* getCurrentConfig(), hence getVideoDimensions(), otherwise
OverlayTimer ==
  /\ demo.timers > 0
  /\ \E frame \in VideoFrames, displayed \in BOOLEAN :
       IF ~demo.isRunning
       THEN /\ demo' = [demo EXCEPT !.timers = @ - 1]
            /\ UNCHANGED media
       ELSE IF ~Sized(frame, displayed)
       THEN UNCHANGED <<demo, media>>
       ELSE /\ demo' = [demo EXCEPT !.timers = @ - 1]
            /\ media' = [media EXCEPT
                           !.last = Ended("getVideoDimensions",
                                          IF camera.video = NoObject
                                          THEN ErrNoVideo ELSE NoError)]
  /\ UNCHANGED <<camera, processorVars>>
  /\ UNCHANGED <<analyzerVars, defaultsVars, callsVars, heapVars>>

\* the browser runs a request of the demo's frame processor:
\* processFrame(), and handleFrameResult(result) as its callback
DemoFrame ==
  /\ browser.nextId <= MaxRequests
  /\ UNCHANGED cameraVars
  /\ UNCHANGED <<analyzerVars, defaultsVars, callsVars, heapVars>>
  /\ \E request \in {q \in browser.pending : q.id \notin demo.stale},
        frame \in VideoFrames :
     \E r \in {processFrame(processor,
                            [browser EXCEPT !.pending = @ \ {request}],
                            FrameAnalysis(frame, processor.config),
                            FALSE, FALSE)} :
       /\ AfterFrame(r, "processFrame", FALSE, observed.halted,
                     observed.rejected, frame, observed.latest,
                     observed.setBy)
       /\ demo' = handleFrameResult(demo, r.delivered)

\* the browser runs a request of a frame processor the demo has dropped:
\* its processFrame() returns at once, since stop() has been called on it
StaleFrame ==
  /\ \E request \in {q \in browser.pending : q.id \in demo.stale} :
       /\ browser' = [browser EXCEPT !.pending = @ \ {request}]
       /\ demo' = [demo EXCEPT !.stale = @ \ {request.id}]
  /\ UNCHANGED <<processor, observed, cameraVars>>
  /\ UNCHANGED <<analyzerVars, defaultsVars, callsVars, heapVars>>

DemoNext ==
  \/ ClickStart
  \/ StartGranted
  \/ StartDenied
  \/ StartReady
  \/ StartVideoFailed
  \/ ClickStop
  \/ InputConfig
  \/ WindowResize
  \/ OverlayTimer
  \/ DemoFrame
  \/ StaleFrame

DemoSpec == DemoInit /\ [][DemoNext]_vars

(***************************************************************************)
(* Properties.  They are stated on the inputs and the outcome, with the    *)
(* arithmetic of the specification text (exact, on halves), not with the   *)
(* operators of the model.                                                 *)
(***************************************************************************)
Returned == result.kind = "result"

Threw(message) == result.kind = "throw" /\ result.error = message

Finished == result # NoResult

IsInteger(halves) == halves % 2 = 0

\* the five rules of the specification, in its order
RuleViolated ==
  <<config.offsetX < 0 \/ config.offsetY < 0,
    config.windowWidth <= 0 \/ config.windowHeight <= 0,
    config.rows <= 0 \/ config.columns <= 0,
    \/ config.offsetX + config.windowWidth > 2 * imageData.width
    \/ config.offsetY + config.windowHeight > 2 * imageData.height,
    "threshold" \in DOMAIN config
      /\ (config.threshold < 0 \/ config.threshold > 510)>>

RuleError ==
  <<ErrOffset, ErrWindowSize, ErrMatrixSize, ErrBounds, ErrThreshold>>

AllRulesHold == \A i \in 1..5 : ~RuleViolated[i]

ValidConfig ==
  AllRulesHold /\ IsInteger(config.rows) /\ IsInteger(config.columns)

\* the cells of the requested grid, rows and columns counted from 0
GridCells ==
  {cell \in (0..(config.rows \div 2)) \X (0..(config.columns \div 2)) :
     2 * cell[1] < config.rows /\ 2 * cell[2] < config.columns}

\* C1: the error raised is the one of the earliest violated rule in the
\* order offsets, window size, matrix size, window bounds, threshold
C1_ValidationOrder ==
  Finished =>
    \A i \in 1..5 :
      (RuleViolated[i] /\ \A j \in 1..(i - 1) : ~RuleViolated[j])
        => Threw(RuleError[i])

\* a call whose configuration breaks the last three rules at once
C1_Witness ==
  /\ Finished
  /\ ~RuleViolated[1] /\ ~RuleViolated[2]
  /\ RuleViolated[3] /\ RuleViolated[4] /\ RuleViolated[5]
  /\ Threw(ErrMatrixSize)

\* C2: a valid configuration with integer rows and columns yields a matrix
\* of exactly rows rows of exactly columns booleans
C2_MatrixShape ==
  (Finished /\ ValidConfig) =>
    /\ Returned
    /\ 2 * Len(result.matrix) = config.rows
    /\ \A r \in DOMAIN result.matrix :
         /\ 2 * Len(result.matrix[r]) = config.columns
         /\ \A c \in DOMAIN result.matrix[r] :
              result.matrix[r][c] \in BOOLEAN

\* a 10 x 10 grid returned for a window 2.5 pixels wide
C2_Witness ==
  /\ Returned
  /\ config.rows = 20 /\ config.columns = 20
  /\ config.windowWidth = 5
  /\ Len(result.matrix) = 10 /\ Len(result.matrix[10]) = 10

\* C3: every call fails with one of the five validation errors or returns
\* a matrix of exactly rows rows of exactly columns cells
C3_NeverDegenerate ==
  Finished =>
    \/ \E i \in 1..5 : Threw(RuleError[i])
    \/ /\ Returned
       /\ 2 * Len(result.matrix) = config.rows
       /\ \A r \in DOMAIN result.matrix :
            2 * Len(result.matrix[r]) = config.columns

\* floor(offsetX + (col + 0.5) * windowWidth / columns), exactly
ExactSampleX(col) ==
  (config.offsetX * config.columns + (2 * col + 1) * config.windowWidth)
    \div (2 * config.columns)

\* floor(offsetY + (row + 0.5) * windowHeight / rows), exactly
ExactSampleY(row) ==
  (config.offsetY * config.rows + (2 * row + 1) * config.windowHeight)
    \div (2 * config.rows)

\* the buffer index read for a cell
IndexRead(row, col) ==
  LET k == CHOOSE k \in DOMAIN result.reads :
             result.reads[k].row = row /\ result.reads[k].col = col
  IN  result.reads[k].index

ReadOnce(row, col) ==
  Cardinality({k \in DOMAIN result.reads :
                 result.reads[k].row = row /\ result.reads[k].col = col}) = 1

\* red, green and blue stored at a buffer index
SamplesAt(index) ==
  <<imageData.data[index + 1], imageData.data[index + 2],
    imageData.data[index + 3]>>

\* C4: the pixel deciding matrix[row][col] is the one at x = floor(offsetX
\* + (col + 0.5) * windowWidth / columns), y = floor(offsetY + (row + 0.5)
\* * windowHeight / rows), read at index (y * bufferWidth + x) * 4
C4_SampledPixel ==
  (Finished /\ ValidConfig) =>
    /\ Returned
    /\ \A cell \in GridCells :
         /\ ReadOnce(cell[1], cell[2])
         /\ IndexRead(cell[1], cell[2]) =
              (ExactSampleY(cell[1]) * imageData.width
                 + ExactSampleX(cell[2])) * 4

\* threshold of the configuration, 128 when it has none (halves)
EffectiveThreshold ==
  IF "threshold" \in DOMAIN config THEN config.threshold ELSE 256

\* 0.2126 R + 0.7152 G + 0.0722 B >= threshold, in ten-thousandths
LuminanceAtLeast(rgb, thresholdHalves) ==
  2 * (2126 * rgb[1] + 7152 * rgb[2] + 722 * rgb[3])
    >= 10000 * thresholdHalves

\* C5: matrix[r][c] is true iff 0.2126 R + 0.7152 G + 0.0722 B of the
\* sampled pixel is at least the configured threshold, 128 by default
C5_ThresholdDecision ==
  (Returned /\ ValidConfig) =>
    \A cell \in GridCells :
      result.matrix[cell[1] + 1][cell[2] + 1]
        = LuminanceAtLeast(SamplesAt(IndexRead(cell[1], cell[2])),
                           EffectiveThreshold)

\* the buffer has red = green = blue = v everywhere
Uniform(v) ==
  \A i \in DOMAIN imageData.data : i % 4 # 0 => imageData.data[i] = v

\* C6: on a buffer with red = green = blue = v, every cell is true iff
\* v >= threshold, the boundary v = threshold included
C6_UniformBuffer ==
  (Returned /\ ValidConfig) =>
    \A v \in 0..255 :
      Uniform(v) =>
        \A cell \in GridCells :
          result.matrix[cell[1] + 1][cell[2] + 1]
            = (2 * v >= EffectiveThreshold)

\* C7: a negative offsetX or offsetY fails with the InvalidOffset error
\* whatever the other fields are
C7_InvalidOffset ==
  (Finished /\ (config.offsetX < 0 \/ config.offsetY < 0))
    => Threw(ErrOffset)

\* only offsetY is negative, and window, grid and threshold are invalid too
C7_Witness ==
  /\ Threw(ErrOffset)
  /\ config.offsetX >= 0 /\ config.offsetY < 0
  /\ RuleViolated[2] /\ RuleViolated[3] /\ RuleViolated[5]

\* C8: with non-negative offsets, windowWidth <= 0 or windowHeight <= 0
\* fails with the InvalidWindowSize error
C8_InvalidWindowSize ==
  (/\ Finished
   /\ config.offsetX >= 0 /\ config.offsetY >= 0
   /\ (config.windowWidth <= 0 \/ config.windowHeight <= 0))
    => Threw(ErrWindowSize)

\* windowWidth = 0 is the only rule broken
C8_Witness ==
  /\ Threw(ErrWindowSize)
  /\ config.windowWidth = 0 /\ config.windowHeight > 0
  /\ ~RuleViolated[1] /\ ~RuleViolated[3]
  /\ ~RuleViolated[4] /\ ~RuleViolated[5]

\* C9: with valid offsets and window size, rows <= 0 or columns <= 0
\* fails with the InvalidMatrixSize error
C9_InvalidMatrixSize ==
  (/\ Finished
   /\ config.offsetX >= 0 /\ config.offsetY >= 0
   /\ config.windowWidth > 0 /\ config.windowHeight > 0
   /\ (config.rows <= 0 \/ config.columns <= 0))
    => Threw(ErrMatrixSize)

\* columns = 0 with positive rows is the only rule broken
C9_Witness ==
  /\ Threw(ErrMatrixSize)
  /\ config.rows > 0 /\ config.columns = 0
  /\ ~RuleViolated[1] /\ ~RuleViolated[2]
  /\ ~RuleViolated[4] /\ ~RuleViolated[5]

\* C10: with valid offsets, window size and grid size, the call fails with
\* the WindowOutOfBounds error exactly when offsetX + windowWidth >
\* bufferWidth or offsetY + windowHeight > bufferHeight
C10_WindowOutOfBounds ==
  (/\ Finished
   /\ config.offsetX >= 0 /\ config.offsetY >= 0
   /\ config.windowWidth > 0 /\ config.windowHeight > 0
   /\ config.rows > 0 /\ config.columns > 0)
    => (Threw(ErrBounds) <=>
          \/ config.offsetX + config.windowWidth > 2 * imageData.width
          \/ config.offsetY + config.windowHeight > 2 * imageData.height)

\* a window that ends exactly on the right and bottom edges is analysed
C10_Witness ==
  /\ Returned
  /\ config.offsetX + config.windowWidth = 2 * imageData.width
  /\ config.offsetY + config.windowHeight = 2 * imageData.height
  /\ config.offsetY > 0

\* config with its threshold set to t (halves)
WithThreshold(cfg, t) ==
  [f \in DOMAIN cfg \cup {"threshold"} |->
     IF f = "threshold" THEN t ELSE cfg[f]]

\* two outcomes that differ at most in the configuration they echo and in
\* the timestamp
SameAnalysis(a, b) ==
  /\ a.kind = b.kind
  /\ a.reads = b.reads
  /\ a.kind = "throw" => a.error = b.error
  /\ a.kind = "result" => a.matrix = b.matrix

\* C11: when the first four rules hold, the call fails with the
\* InvalidThreshold error exactly when a threshold is provided and lies
\* outside [0, 255]; without a threshold the rule never fails and the
\* analysis is the one made with threshold 128
C11_InvalidThreshold ==
  (Finished /\ \A i \in 1..4 : ~RuleViolated[i]) =>
    /\ Threw(ErrThreshold) <=>
         ("threshold" \in DOMAIN config
            /\ (config.threshold < 0 \/ config.threshold > 510))
    /\ "threshold" \notin DOMAIN config =>
         SameAnalysis(result,
                      analyzeFrame(imageData, WithThreshold(config, 256), 0))

\* the bound 255 is accepted and separates a buffer of 128 from it
C11_Witness ==
  /\ Returned
  /\ "threshold" \in DOMAIN config /\ config.threshold = 510
  /\ Uniform(128)
  /\ result.matrix[1][1] = FALSE

\* C12: when a validation rule is violated the call throws with no pixel
\* read, no matrix built and no timestamp taken
C12_AtomicFailure ==
  (Finished /\ ~AllRulesHold) =>
    /\ result.kind = "throw"
    /\ result.reads = <<>>
    /\ DOMAIN result = {"kind", "error", "reads"}

\* the window, inside which pixels would be sampled, is out of bounds
C12_Witness ==
  /\ Threw(ErrBounds)
  /\ result.reads = <<>>
  /\ config.rows > 0 /\ config.columns > 0

\* C13: createDefaultConfig(width, height) returns offsetX = 0, offsetY = 0,
\* windowWidth = width, windowHeight = height, rows = 8, columns = 8 and
\* threshold = 128 (fields in halves)
C13_DefaultConfig ==
  defaults # NoConfig =>
    defaults = [offsetX      |-> 0,
                offsetY      |-> 0,
                windowWidth  |-> 2 * dimensions.imageWidth,
                windowHeight |-> 2 * dimensions.imageHeight,
                rows         |-> 16,
                columns      |-> 16,
                threshold    |-> 256]

\* C14: the configuration of createDefaultConfig(width, height) passes the
\* five validation rules on a buffer of width x height pixels
C14_DefaultsValid ==
  defaultsVerdict # NoVerdict =>
    (dimensions.imageWidth > 0 /\ dimensions.imageHeight > 0
       => defaultsVerdict = NoError)

\* the buffer with red, green and blue of pixel number p inverted
Repainted(p) ==
  [imageData EXCEPT
     !.data = [i \in DOMAIN imageData.data |->
                 IF (i - 1) \div 4 = p /\ i % 4 # 0
                 THEN 255 - imageData.data[i]
                 ELSE imageData.data[i]]]

\* the buffer with every alpha sample set to 0
Transparent ==
  [imageData EXCEPT
     !.data = [i \in DOMAIN imageData.data |->
                 IF i % 4 = 0 THEN 0 ELSE imageData.data[i]]]

\* buffers of the size of imageData that differ from it in one pixel or in
\* the alpha samples
OtherBuffers ==
  {Repainted(p) : p \in 0..(imageData.width * imageData.height - 1)}
    \cup {Transparent}

\* index of the pixel at the centre of a cell, computed exactly
CentreIndex(cell) ==
  (ExactSampleY(cell[1]) * imageData.width + ExactSampleX(cell[2])) * 4

\* other has the red, green and blue of imageData at every cell centre
AgreesOnCentres(other) ==
  \A cell \in GridCells :
    \A k \in 1..3 :
      other.data[CentreIndex(cell) + k]
        = imageData.data[CentreIndex(cell) + k]

\* C18: a buffer of the same size with the same red, green and blue at the
\* rows x columns cell-centre pixels gives the same matrix; other pixels
\* and the alpha samples have no influence
C18_CentresOnly ==
  (Returned /\ ValidConfig) =>
    \A other \in OtherBuffers :
      AgreesOnCentres(other)
        => analyzeFrame(other, config, 0).matrix = result.matrix

\* the pixel at the centre of cell k, counted from 0, of cells cells
\* along a window: floor(offset + (k + 0.5) * window / cells), exactly
CentrePixel(offset, window, cells, k) ==
  (offset * cells + (2 * k + 1) * window) \div (2 * cells)

\* red, green and blue of the pixel (x, y) of a buffer
PixelOf(image, x, y) ==
  <<image.data[(y * image.width + x) * 4 + 1],
    image.data[(y * image.width + x) * 4 + 2],
    image.data[(y * image.width + x) * 4 + 3]>>

\* the matrix the specification gives for a buffer and a valid
\* configuration with whole numbers of rows and columns: the cell is true
\* iff the luminance of the pixel at its centre is at least the threshold,
\* 128 by default
MatrixOf(image, cfg) ==
  [r \in 1..(cfg.rows \div 2) |->
     [c \in 1..(cfg.columns \div 2) |->
        LuminanceAtLeast(
          PixelOf(image,
                  CentrePixel(cfg.offsetX, cfg.windowWidth, cfg.columns,
                              c - 1),
                  CentrePixel(cfg.offsetY, cfg.windowHeight, cfg.rows,
                              r - 1)),
          IF "threshold" \in DOMAIN cfg THEN cfg.threshold ELSE 256)]]

\* C19: two calls with the same buffer contents and the same configuration
\* return equal matrices (or fail alike), whatever calls were made before
\* or in between, and only the timestamp may differ; and what a call
\* returns is what its own buffer and configuration give, the error of a
\* negative offset or the matrix of the specification, whatever calls were
\* made before it
C19_Idempotent ==
  /\ \A i, j \in DOMAIN calls :
       (calls[i].imageData = calls[j].imageData
          /\ calls[i].config = calls[j].config)
         => SameAnalysis(calls[i].outcome, calls[j].outcome)
  /\ \A i \in DOMAIN calls :
       IF calls[i].config.offsetX < 0
       THEN /\ calls[i].outcome.kind = "throw"
            /\ calls[i].outcome.error = ErrOffset
       ELSE /\ calls[i].outcome.kind = "result"
            /\ calls[i].outcome.matrix
                 = MatrixOf(calls[i].imageData, calls[i].config)

\* two successful calls on the same input at different times, with a
\* failing call on another input in between
C19_Witness ==
  /\ Len(calls) = 3
  /\ calls[1].imageData = calls[3].imageData
  /\ calls[1].config = calls[3].config
  /\ calls[1].outcome.kind = "result"
  /\ calls[1].outcome.matrix = calls[3].outcome.matrix
  /\ calls[1].outcome.timestamp # calls[3].outcome.timestamp
  /\ calls[2].imageData # calls[1].imageData
  /\ calls[2].outcome.kind = "throw"

\* C20: a call, successful or failing, leaves every sample of the buffer
\* and every field of the configuration unchanged, and a result echoes the
\* input configuration field for field
C20_ReadOnly ==
  [][/\ imageData' = imageData
     /\ config' = config
     /\ result'.kind = "result" => result'.config = config]_vars

\* a result for a configuration without threshold echoes it without one
C20_Witness ==
  /\ Returned
  /\ "threshold" \notin DOMAIN config
  /\ DOMAIN result.config = DOMAIN config
  /\ imageData \in Images

\* C15: from stop() until the next start(), no handler of the processor
\* calls analyzeFrame or the result callback, a frame notification
\* requested before stop() included
C15_NoAnalysisAfterStop ==
  [][(observed.halted /\ observed'.handler # "start")
       => (~observed'.analysed /\ ~observed'.delivered)]_vars

\* a requestVideoFrameCallback request outlived stop() and its
\* notification was ignored
C15_Witness ==
  /\ processor.class = "FrameProcessor"
  /\ browser.videoFrameCallbacks
  /\ observed.halted
  /\ observed.handler = "processFrame"
  /\ ~observed.analysed
  /\ ~processor.isProcessing

\* C16: at most one processFrame request is pending after any sequence of
\* start(), stop(), updateConfig() and frame notifications
C16_SingleLoop == Cardinality(browser.pending) <= 1

\* C17: once analyzeFrame has failed validation for the configuration of
\* the processor, no later frame notification calls analyzeFrame until the
\* configuration is replaced by start() or updateConfig()
C17_FailureIsFatal ==
  [][(observed.rejected # NoConfig /\ observed'.handler = "processFrame")
       => ~observed'.analysed]_vars

\* the arrays of the result object at address a: its matrix and its rows
ArraysOf(a) ==
  {heap[a].matrix} \cup
    {heap[heap[a].matrix].value[r] : r \in DOMAIN heap[heap[a].matrix].value}

\* C21: the matrix and the rows of a result are shared with no other
\* result, and the matrix and the configuration a consumer reads in a
\* result stay what they were when the call returned, whatever calls are
\* made later and whatever the caller does to its configuration object
C21_IndependentResults ==
  /\ \A i, j \in DOMAIN held :
       i # j => ArraysOf(held[i].result) \cap ArraysOf(held[j].result) = {}
  /\ \A i \in DOMAIN held :
       Contents(heap, held[i].result) = held[i].seen

\* the matrix of a frame with red = green = blue = v for configuration
\* cfg: every cell is v >= threshold
UniformMatrix(cfg, v) ==
  [r \in 1..(cfg.rows \div 2) |->
     [c \in 1..(cfg.columns \div 2) |->
        2 * v >= (IF "threshold" \in DOMAIN cfg THEN cfg.threshold
                  ELSE 256)]]

\* C22: a call interleaved with calls on other inputs, made in turn or
\* from inside the callback of another frame, returns the matrix of its
\* own frame and configuration
C22_Reentrant ==
  \A i \in DOMAIN held :
    held[i].seen.matrix
      = UniformMatrix(held[i].seen.config, held[i].imageData.data[1])

\* B analysed its frame from inside the callback of A's frame, and A
\* analysed again afterwards
C22_Witness ==
  /\ Len(held) = 3
  /\ held[1].caller = "A" /\ held[2].caller = "B" /\ held[3].caller = "A"
  /\ held[1].result + 3 = held[2].result
  /\ held[1].seen.matrix = <<<<TRUE, TRUE>>, <<TRUE, TRUE>>>>
  /\ held[2].seen.matrix = <<<<FALSE, FALSE, FALSE>>>>
  /\ held[3].seen.matrix = <<<<FALSE, FALSE>>, <<FALSE, FALSE>>>>

\* the requests the last handler added
NewRequests == browser'.pending \ browser.pending

\* C23: every request a processor makes goes to requestVideoFrameCallback
\* when the platform has it and to requestAnimationFrame only when it has
\* not, and a handler leaves at most one new request
C23_FrameAlignedPacing ==
  [][/\ \A r \in NewRequests :
          (r.queue = "video") <=> browser.videoFrameCallbacks
     /\ Cardinality(NewRequests) <= 1]_vars

\* the buffer is a checkerboard of squares of side s: the pixel (x, y) has
\* red = green = blue = 255 when (x div s) + (y div s) is even, 0 otherwise
Checkerboard(s) ==
  \A p \in 0..(imageData.width * imageData.height - 1) :
    \A k \in 1..3 :
      imageData.data[4 * p + k]
        = IF ((p % imageData.width) \div s
                + (p \div imageData.width) \div s) % 2 = 0
          THEN 255 ELSE 0

\* the window starts on a border of squares of side s and every cell of the
\* grid is one square
OneSquarePerCell(s) ==
  /\ IsInteger(config.offsetX) /\ IsInteger(config.offsetY)
  /\ (config.offsetX \div 2) % s = 0 /\ (config.offsetY \div 2) % s = 0
  /\ IsInteger(config.rows) /\ IsInteger(config.columns)
  /\ config.windowWidth = config.columns * s
  /\ config.windowHeight = config.rows * s

\* the square of side s under a cell is light
LightSquare(s, cell) ==
  ((config.offsetX \div 2) \div s + cell[2]
     + (config.offsetY \div 2) \div s + cell[1]) % 2 = 0

\* C24: on a checkerboard with the window on borders of squares and one
\* cell per square, whatever the threshold, matrix[r][c] is true iff the
\* square under the cell is light; for squares of side 25, offset
\* (25, 25), window 50 x 50, a 2 x 2 grid and threshold 128 the matrix is
\* [[true, false], [false, true]]
C24_Checkerboard ==
  (Finished /\ ValidConfig) =>
    \A s \in BoardSides :
      (OneSquarePerCell(s) /\ Checkerboard(s)) =>
        /\ Returned
        /\ \A cell \in GridCells :
             result.matrix[cell[1] + 1][cell[2] + 1] = LightSquare(s, cell)
        /\ (/\ s = 25
            /\ EffectiveThreshold = 256
            /\ config.offsetX = 50 /\ config.offsetY = 50
            /\ config.windowWidth = 100 /\ config.windowHeight = 100
            /\ config.rows = 4 /\ config.columns = 4)
             => result.matrix = <<<<TRUE, FALSE>>, <<FALSE, TRUE>>>>

\* the five validation rules hold for configuration cfg on a frame
RulesHoldFor(cfg, frame) ==
  /\ cfg.offsetX >= 0 /\ cfg.offsetY >= 0
  /\ cfg.windowWidth > 0 /\ cfg.windowHeight > 0
  /\ cfg.rows > 0 /\ cfg.columns > 0
  /\ cfg.offsetX + cfg.windowWidth <= 2 * frame.width
  /\ cfg.offsetY + cfg.windowHeight <= 2 * frame.height
  /\ "threshold" \in DOMAIN cfg
       => (cfg.threshold >= 0 /\ cfg.threshold <= 510)

\* C25: a handler that processes a frame while the processor is running
\* calls the callback exactly when the frame could be captured and its
\* analysis succeeded, with the matrix of that frame, before any later
\* frame is processed; a handler that processes no frame does not call it
C25_OneCallbackPerFrame ==
  /\ observed.handler \in {"start", "processFrame"} =>
       /\ observed.delivered <=>
            /\ observed.ran
            /\ observed.frame.width > 0
            /\ RulesHoldFor(observed.latest, observed.frame)
       /\ observed.delivered =>
            observed.passed.matrix
              = UniformMatrix(observed.latest, observed.frame.data[1])
  /\ observed.handler \in {"stop", "updateConfig"} => ~observed.delivered

\* a frame notification delivered the matrix of its frame, and the
\* callback threw
C25_Witness ==
  /\ observed.handler = "processFrame"
  /\ observed.delivered
  /\ observed.caught = "callback"
  /\ observed.latest.threshold = 2 * 250
  /\ observed.passed.matrix = <<<<FALSE>>>>

\* C26: for a configuration that passes validation, on a buffer of
\* width * height * 4 samples, every pixel read lies inside the sampling
\* window and inside the buffer, and none of its three samples is beyond
\* the end of the data
C26_SamplesInside ==
  (/\ Finished
   /\ AllRulesHold
   /\ Len(imageData.data) = imageData.width * imageData.height * 4) =>
    \A k \in DOMAIN result.reads :
      /\ 2 * result.reads[k].x + 1 >= config.offsetX
      /\ 2 * result.reads[k].x < config.offsetX + config.windowWidth
      /\ 2 * result.reads[k].y + 1 >= config.offsetY
      /\ 2 * result.reads[k].y < config.offsetY + config.windowHeight
      /\ result.reads[k].x >= 0 /\ result.reads[k].x < imageData.width
      /\ result.reads[k].y >= 0 /\ result.reads[k].y < imageData.height
      /\ \A i \in 1..3 : result.reads[k].index + i \in DOMAIN imageData.data

\* C27: a result handed to the callback carries the configuration last
\* given to start() or updateConfig() before its frame was processed, and
\* updateConfig() leaves isProcessing, animationId and the pending requests
\* as they were
C27_ConfigFromNextFrame ==
  [][/\ observed'.delivered => observed'.passed.config = observed'.latest
     /\ observed'.handler = "updateConfig" =>
          /\ processor'.isProcessing = processor.isProcessing
          /\ processor'.animationId = processor.animationId
          /\ browser' = browser]_vars

\* the first frame after an updateConfig that changed the threshold of a
\* running processor is analysed with the new configuration
C27_Witness ==
  /\ observed.handler = "processFrame"
  /\ observed.setBy = "updateConfig"
  /\ observed.delivered
  /\ observed.latest.threshold = 2 * 250
  /\ observed.passed.config.threshold = 2 * 250
  /\ observed.passed.matrix = <<<<FALSE>>>>
  /\ processor.isProcessing

\* the last handler was processFrame and called the callback
Delivered == observed.handler = "processFrame" /\ observed.delivered

\* the last handler was processFrame and found no frame to capture
NoFrameCaptured ==
  observed.handler = "processFrame" /\ observed.caught = "getImageData"

\* updateConfig has replaced a configuration that had failed validation by
\* a valid one, the processor is running with a request pending, and no
\* frame has been processed since
Awaiting ==
  /\ observed.handler = "updateConfig"
  /\ observed.replaced
  /\ processor.isProcessing
  /\ processor.config.threshold <= 510
  /\ browser.pending # {}
  /\ browser.nextId <= MaxRequests

\* C28: a handler that processed a frame and left the processor running
\* has requested the next frame, whatever the catch block caught; a frame
\* processed with a valid configuration is delivered to the callback,
\* whatever was caught on the frames before; and once updateConfig has
\* replaced a configuration that failed validation by a valid one, the
\* pending request is run and delivers a frame to the callback, unless no
\* frame can be captured or the processor is stopped, started again or
\* given an invalid configuration first
C28_LoopSurvivesErrors ==
  /\ [][(observed'.ran /\ processor'.isProcessing)
          => Cardinality(NewRequests) = 1]_vars
  /\ [][(/\ observed'.handler = "processFrame"
          /\ observed'.ran
          /\ observed'.frame.width > 0
          /\ RulesHoldFor(processor.config, observed'.frame))
          => observed'.delivered]_vars
  /\ Awaiting ~>
       \/ Delivered
       \/ NoFrameCaptured
       \/ ~processor.isProcessing
       \/ processor.config.threshold > 510
       \/ observed.handler = "start"

\* analyzeFrame threw on a frame, the next frame was requested all the
\* same, updateConfig replaced the configuration, and the frame after it
\* was delivered to the callback, with the next one requested
C28_Witness ==
  /\ observed.handler = "processFrame"
  /\ observed.replaced
  /\ observed.setBy = "updateConfig"
  /\ observed.delivered
  /\ observed.caught = "none"
  /\ processor.isProcessing
  /\ browser.pending # {}

\* the processor requests its frames with requestAnimationFrame
AnimationFrameStrategy ==
  processor.class = "OffscreenFrameProcessor" \/ ~browser.videoFrameCallbacks

\* stop() has just returned: the last handler was stop, or a processFrame
\* whose callback called stop
StopReturned ==
  \/ observed.handler = "stop"
  \/ observed.delivered /\ ~processor.isProcessing

\* C29: under the requestAnimationFrame strategy, when stop() has returned
\* no request is pending and animationId is null
C29_StopCancelsRequest ==
  (AnimationFrameStrategy /\ StopReturned)
    => (browser.pending = {} /\ processor.animationId = NullId)

\* the stream has a track that has not been stopped
Running(stream) == \E t \in 1..Len(stream) : stream[t] = "live"

\* C30: when stop() has returned, no stream that requestCamera() acquired
\* has a running track
C30_StreamsReleased ==
  media.last.call = "stop"
    => \A s \in 1..Len(media.streams) : ~Running(media.streams[s])

\* the last call threw
CallThrew == media.last.error # NoError

\* C31: createVideoElement() throws exactly when no requestCamera() has
\* succeeded since the last stop(); waitForVideoReady() and
\* getVideoDimensions() throw exactly when no createVideoElement() has
\* succeeded since the last stop(); and a call that throws leaves stream
\* and video as they were
C31_CallOrder ==
  [][/\ media'.last.call = "createVideoElement"
          => (CallThrew' <=> ~media.acquired)
     /\ media'.last.call \in {"waitForVideoReady", "getVideoDimensions"}
          => (CallThrew' <=> ~media.created)
     /\ (media'.last.call \in {"createVideoElement", "waitForVideoReady",
                               "getVideoDimensions"} /\ CallThrew')
          => camera' = camera]_vars

\* createVideoElement() has thrown after a stop() that followed a
\* successful requestCamera()
C31_Witness ==
  /\ media.last = Ended("createVideoElement", ErrNoStream)
  /\ Len(media.streams) > 0
  /\ ~media.acquired
  /\ camera.stream = NoObject

\* C32: isActive() is true exactly when requestCamera() and
\* createVideoElement() have both succeeded since the last stop(); stop()
\* stops every track of the stream it held and leaves stream and video
\* null, so that isActive() is false and getVideoElement() is null; and a
\* stop() right after a stop() changes nothing and does not throw
C32_ActiveUntilStop ==
  /\ [](isActive(camera) <=> (media.acquired /\ media.created))
  /\ [][media'.last.call = "stop" =>
          /\ camera.stream # NoObject
               => ~Running(media'.streams[camera.stream])
          /\ camera'.stream = NoObject /\ camera'.video = NoObject
          /\ ~isActive(camera')
          /\ getVideoElement(camera') = NoObject
          /\ ~CallThrew'
          /\ media.last.call = "stop"
               => (camera' = camera /\ media' = media)]_vars

\* stop() has returned on a manager that was active
C32_Witness ==
  /\ media.last.call = "stop"
  /\ ~isActive(camera)
  /\ \E s \in 1..Len(media.streams) : ~Running(media.streams[s])
  /\ \E v \in 1..Len(media.videos) : media.videos[v].paused

\* a getUserMedia promise has settled without a stream
Rejected == media'.requested < media.requested
              /\ media'.streams = media.streams

\* C34: when getUserMedia rejects, requestCamera() rejects with an Error
\* whose message starts with 'Failed to access camera', followed by the
\* message of the rejection or by 'Unknown error', and stream and video
\* are as they were before
C34_DeniedLeavesManager ==
  [][Rejected =>
       /\ media'.last.call = "requestCamera"
       /\ media'.last.error = "Failed to access camera"
       /\ media'.last.detail \in {"Permission denied", "Unknown error"}
       /\ camera' = camera
       /\ media'.videos = media.videos
       /\ media'.acquired = media.acquired
       /\ media'.created = media.created]_vars

\* getUserMedia has rejected while the manager held a stream and a video
C34_Witness ==
  /\ media.last.call = "requestCamera"
  /\ media.last.error = "Failed to access camera"
  /\ media.last.detail = "Unknown error"
  /\ camera.stream # NoObject
  /\ camera.video # NoObject
  /\ Running(media.streams[camera.stream])

\* C33: in the demo, while isRunning is false and no startCamera() call is
\* in progress, the CameraManager holds no stream with a running track,
\* the frame processor is not processing, and no frame result is counted
\* or shown
C33_IdleDemoHoldsNothing ==
  (~demo.isRunning /\ demo.step = "idle") =>
    /\ camera.stream # NoObject => ~Running(media.streams[camera.stream])
    /\ ~processor.isProcessing
    /\ demo.frameCount = 0
    /\ ~demo.shown

====
